---- MODULE Spec2Model ----
(***************************************************************************)
(* Timeline assembly and timeline caching of the microblogging platform.   *)
(*                                                                         *)
(* Two deployments are modelled, as cmd/main.go wires them:                *)
(*   - local mode: the in-memory user and tweet repositories, the tweet    *)
(*     repository keeping its own userTimeline map, and no TimelineCache   *)
(*     handed to the user use case;                                        *)
(*   - lambda mode: the DynamoDB user and tweet repositories with the      *)
(*     Redis timeline cache (or no cache when Redis was unreachable).      *)
(***************************************************************************)
EXTENDS Integers, Sequences, FiniteSets, TLC

VARIABLES
    users,          \* memory.UserRepository.users: id -> entity.User
    tweets,         \* memory.TweetRepository.tweets: id -> entity.Tweet
    userTweets,     \* memory.TweetRepository.userTweets: user id -> list of tweets
    userTimeline,   \* memory.TweetRepository.userTimeline: user id -> cached timeline
    usersTable,     \* DynamoDB table "users": id -> item
    tweetsTable,    \* DynamoDB table "tweets": id -> item
    redis,          \* Redis: key -> [val, exp]
    now,            \* minutes elapsed on the Redis server's clock
    mode,           \* main's mode: "local" or "lambda"
    timelineCache,  \* the cache.TimelineCache main wired: "redis" or "nil"
    userCount,      \* user ids handed out by uuid.New so far
    tweetCount,     \* tweet ids handed out by uuid.New so far
    ret,            \* what the step just taken handed back to its caller: the
                    \* operation that returned and the calls it made, or NoRet
                    \* when the step returned from no operation
    procs,          \* the requests in flight: each is between two of its calls
    acked,          \* the history a specification watches, <<"watch", kind>>
                    \* naming what is kept:
                    \* <<"saved", id>>: the Save of tweet id has returned nil;
                    \* <<"deleteAsked", id>>: a Delete of tweet id has been asked;
                    \* <<"followAsked", u, v>>, <<"followed", u, v>>: FollowUser(u, v)
                    \* has been asked, has returned nil (likewise "unfollowed");
                    \* where a request is served by two deployments, the request,
                    \* the tables it is served from and what the first returned
    lastSet,        \* user id -> the timeline the last SetTimeline that succeeded
                    \* stored and when, unless an InvalidateTimeline succeeded since;
                    \* for the in-memory repository under concurrent calls, the
                    \* authors the cached timeline of the user was built from
    heap,           \* objects: the user objects taken out of the in-memory user
                    \* repository that a request still holds a pointer to;
                    \* arrays: the backing arrays of the slices of the in-memory
                    \* tweet repository, where slices are modelled as Go holds them
    held            \* the slices GetTimeline returned that callers still hold

vars == <<users, tweets, userTweets, userTimeline, usersTable, tweetsTable,
          redis, now, mode, timelineCache, userCount, tweetCount, ret, procs, acked,
          lastSet, heap, held>>

memVars == <<users, tweets, userTweets, userTimeline>>
ddbVars == <<usersTable, tweetsTable, redis, now>>

----------------------------------------------------------------------------
(* Bounds of the model *)

\* the ids uuid.New hands to CreateUser, in the order it hands them out
UserSeq == <<"A", "B">>
UserIDs == {UserSeq[i] : i \in 1..Len(UserSeq)}
\* tweet ids are 1..MaxTweets, handed out in order
MaxTweets == 2
\* CreatedAt instants are 1..MaxTime; fewer instants than tweets, so ties happen
MaxTime == 2
\* tweets created, and their instants, in the specifications where calls on
\* DynamoDB and Redis may fail or where requests run concurrently
SmallMaxTweets == 1
SmallMaxTime == 1
\* requests in flight at once
MaxProcs == 2
\* requests in flight at once where the requests are followed one by one
MaxInFlight == 1
\* the clock stops at MaxClock minutes
MaxClock == 6

TweetIDs == 1..MaxTweets
Times == 1..MaxTime

\* a content is a sequence of characters: "x" is encoded in one byte, "enye"
\* (U+00F1) in two
Text(n) == [i \in 1..n |-> "x"]
Wide(n) == [i \in 1..n |-> "enye"]
\* the content posted where the requests are about timelines
PostedContents == {Text(1)}

----------------------------------------------------------------------------
(* domain/entity *)

\* an error value: its message and the user id the message names ("" for none)
Err(msg, about) == [msg |-> msg, about |-> about]
Nil == Err("nil", "")
ErrCannotFollowSelf == Err("user cannot follow themselves", "")
ErrUserNotFound == Err("user not found", "")
ErrTweetNotFound == Err("tweet not found", "")
ErrTweetTooLong == Err("tweet exceeds character limit", "")
\* no user id, no tweet id
None == ""
NoTweet == 0

NewUser(id) == [ID |-> id, Following |-> {}]

\* a Follow without the check of the user's own ID
FollowNoSelfCheck(u, userID) ==
    [err |-> Nil, user |-> [u EXCEPT !.Following = @ \cup {userID}]]

\* User.Follow: the receiver is changed in place unless the call is refused
Follow(u, userID) ==
    IF u.ID = userID
    THEN [err |-> ErrCannotFollowSelf, user |-> u]
    ELSE [err |-> Nil, user |-> [u EXCEPT !.Following = @ \cup {userID}]]

\* an Unfollow that leaves the map as it is
UnfollowKeepsEntry(u, userID) == u

Unfollow(u, userID) == [u EXCEPT !.Following = @ \ {userID}]

IsFollowing(u, userID) == userID \in u.Following

\* User.GetFollowing: the keys of the map; the slice's order is the map's
\* iteration order, which nothing below depends on
GetFollowing(u) == u.Following

\* the maximum number of characters allowed in a tweet
MaxTweetLength == 280

\* a pointer result: <<x>> for a pointer to x, << >> for nil
NilPtr == << >>

\* len(content) of a Go string: the number of bytes of its UTF-8 encoding
ByteLen(content) ==
    Len(content) + Cardinality({i \in 1..Len(content) : content[i] = "enye"})

\* a NewTweet that checks nothing
NewTweetNoLimit(id, userID, content, at) ==
    [tweet |-> <<[ID |-> id, UserID |-> userID, Content |-> content,
                  CreatedAt |-> at]>>,
     err |-> Nil]

\* entity.NewTweet with the id and the instant time.Now() returned
NewTweet(id, userID, content, at) ==
    IF ByteLen(content) > MaxTweetLength
    THEN [tweet |-> NilPtr, err |-> ErrTweetTooLong]
    ELSE [tweet |-> <<[ID |-> id, UserID |-> userID, Content |-> content,
                       CreatedAt |-> at]>>,
          err |-> Nil]

\* Tweet.IsValid
IsValid(t) == ByteLen(t.Content) <= MaxTweetLength

\* time.Time.After
After(t1, t2) == t1 > t2

----------------------------------------------------------------------------
(* helpers on sequences *)

Range(s) == {s[i] : i \in 1..Len(s)}

RECURSIVE SetToSeq(_)
SetToSeq(S) ==
    IF S = {} THEN <<>>
    ELSE LET x == CHOOSE y \in S : TRUE IN <<x>> \o SetToSeq(S \ {x})

RECURSIVE Flatten(_)
\* the concatenation of a sequence of sequences
Flatten(ss) == IF ss = <<>> THEN <<>> ELSE Head(ss) \o Flatten(Tail(ss))

\* how many times x occurs in s
Count(s, x) == Cardinality({i \in 1..Len(s) : s[i] = x})

\* the rearrangements of s
Rearrangements(s) ==
    {[i \in 1..Len(s) |-> s[p[i]]] : p \in Permutations(1..Len(s))}

NewestFirst(s) ==
    \A i \in 1..Len(s), j \in 1..Len(s) :
        i < j => ~After(s[j].CreatedAt, s[i].CreatedAt)

\* a sort whose less function is CreatedAt.Before: oldest first
SortSliceOldestFirst(all) ==
    {s \in Rearrangements(all) :
        \A i \in 1..Len(s), j \in 1..Len(s) :
            i < j => ~After(s[i].CreatedAt, s[j].CreatedAt)}

\* what GetTimeline would return without the sort: the order of collection
SortSliceKeepOrder(all) == {all}

\* sort.Slice(all, func(i, j) { return all[i].CreatedAt.After(all[j].CreatedAt) }):
\* not a stable sort, so every newest-first rearrangement is a possible outcome
SortSlice(all) == {s \in Rearrangements(all) : NewestFirst(s)}

----------------------------------------------------------------------------
(* infrastructure/repository/memory: UserRepository *)

\* UserRepository.FindByID: the stored pointer itself, or nil
MemFindUser(id) == IF id \in DOMAIN users THEN <<users[id]>> ELSE NilPtr

\* UserRepository.Save / Update on an existing user: r.users[user.ID] = user
MemPutUser(us, user) == [id \in DOMAIN us \cup {user.ID} |->
                            IF id = user.ID THEN user ELSE us[id]]

(* infrastructure/repository/memory: TweetRepository *)

\* an invalidation that removes the author's timeline only
invalidateTimelineOfAuthor(userID) ==
    [v \in DOMAIN userTimeline \ {userID} |-> userTimeline[v]]

\* invalidateTimelines: r.userTimeline = make(map...), whoever the author is
invalidateTimelines(userID) == << >>

\* Save's r.tweets[tweet.ID] = tweet
MemStoreTweet(ts, tweet) ==
    [id \in DOMAIN ts \cup {tweet.ID} |-> IF id = tweet.ID THEN tweet ELSE ts[id]]

\* Save's r.userTweets[tweet.UserID] = append(r.userTweets[tweet.UserID], tweet)
MemAppendTweet(uts, tweet) ==
    [u \in DOMAIN uts \cup {tweet.UserID} |->
        IF u = tweet.UserID
        THEN (IF u \in DOMAIN uts THEN uts[u] ELSE <<>>) \o <<tweet>>
        ELSE uts[u]]

\* a removal that leaves the list as it is
RemoveFirstKeepsAll(list, id) == list

\* the list without its first element whose ID is id
RemoveFirst(list, id) ==
    IF \E i \in 1..Len(list) : list[i].ID = id
    THEN LET i == CHOOSE k \in 1..Len(list) :
                    /\ list[k].ID = id
                    /\ \A m \in 1..(k - 1) : list[m].ID # id
         IN SubSeq(list, 1, i - 1) \o SubSeq(list, i + 1, Len(list))
    ELSE list

\* the lists of the followed users and of the user, appended one after another
MemCollect(user) ==
    LET followingIDs == SetToSeq(GetFollowing(user)) \o <<user.ID>> IN
    Flatten([i \in 1..Len(followingIDs) |->
                IF followingIDs[i] \in DOMAIN userTweets
                THEN userTweets[followingIDs[i]] ELSE <<>>])

\* TweetRepository.GetTimeline builds: every outcome of collecting and sorting
MemBuildTimeline(user) == SortSlice(MemCollect(user))

----------------------------------------------------------------------------
(* infrastructure/repository/dynamodb: the users table.  A read is modelled
   as seeing the last write; a request that fails has changed nothing. *)

ErrStore(what) == Err(what, "")

\* the string set attribute: DynamoDB holds no empty set, so "omitempty"
\* leaves the attribute out, written << >> here
StringSet(S) == IF S = {} THEN << >> ELSE <<S>>

\* toDynamoDBUser
toDynamoDBUser(user) == [ID |-> user.ID, Following |-> StringSet(user.Following)]

\* fromDynamoDBUser: a map with a key for every member of the set
fromDynamoDBUser(ddbUser) ==
    [ID |-> ddbUser.ID,
     Following |-> IF ddbUser.Following = << >> THEN {} ELSE ddbUser.Following[1]]

\* DynamoDBUserRepository.FindByID when GetItem answers
DdbFindUser(id) ==
    IF id \in DOMAIN usersTable THEN <<fromDynamoDBUser(usersTable[id])>> ELSE NilPtr

\* DynamoDBUserRepository.Save and Update when PutItem answers: an upsert
DdbPutUser(table, user) ==
    [id \in DOMAIN table \cup {user.ID} |->
        IF id = user.ID THEN toDynamoDBUser(user) ELSE table[id]]

(* infrastructure/repository/dynamodb: the tweets table *)

\* time.Time.Format(time.RFC3339Nano) and time.Parse(time.RFC3339Nano, s): the
\* text keeps the instant to the nanosecond
FormatRFC3339Nano(t) == <<"RFC3339Nano", t>>
ParseRFC3339Nano(str) ==
    IF Len(str) = 2 /\ str[1] = "RFC3339Nano"
    THEN [err |-> Nil, t |-> str[2]]
    ELSE [err |-> Err("parsing time", ""), t |-> 0]

\* a conversion that leaves the content out
toDynamoDBTweetNoContent(tweet) ==
    [ID |-> tweet.ID, UserID |-> tweet.UserID, Content |-> <<>>,
     CreatedAt |-> FormatRFC3339Nano(tweet.CreatedAt)]

\* toDynamoDBTweet
toDynamoDBTweet(tweet) ==
    [ID |-> tweet.ID, UserID |-> tweet.UserID, Content |-> tweet.Content,
     CreatedAt |-> FormatRFC3339Nano(tweet.CreatedAt)]

\* fromDynamoDBTweet
fromDynamoDBTweet(ddbTweet) ==
    LET createdAt == ParseRFC3339Nano(ddbTweet.CreatedAt) IN
    IF createdAt.err # Nil
    THEN [err |-> createdAt.err, tweet |-> NilPtr]
    ELSE [err |-> Nil,
          tweet |-> <<[ID |-> ddbTweet.ID, UserID |-> ddbTweet.UserID,
                       Content |-> ddbTweet.Content,
                       CreatedAt |-> createdAt.t]>>]

\* PutItem on the tweets table
DdbPutTweet(table, tweet) ==
    [id \in DOMAIN table \cup {tweet.ID} |->
        IF id = tweet.ID THEN toDynamoDBTweet(tweet) ELSE table[id]]

\* DeleteItem on the tweets table
DdbDeleteItem(table, id) == [i \in DOMAIN table \ {id} |-> table[i]]

\* DynamoDBTweetRepository.FindByID when GetItem answers
DdbFindTweet(table, id) ==
    IF id \in DOMAIN table THEN fromDynamoDBTweet(table[id])
    ELSE [err |-> Nil, tweet |-> NilPtr]

\* queryTweetsByUserIDWithContext when every page arrives: the items of the
\* index with this UserID, an item that does not convert being skipped
queryTweetsByUserID(table, userID) ==
    LET ids == {id \in DOMAIN table :
                    /\ table[id].UserID = userID
                    /\ fromDynamoDBTweet(table[id]).err = Nil}
        order == SetToSeq(ids)
    IN [i \in 1..Len(order) |-> fromDynamoDBTweet(table[order[i]]).tweet[1]]

\* the error GetTimeline's fetch task returns for fetchID
ErrFetch(fetchID) == Err("failed to get tweets for user during timeline fetch", fetchID)

----------------------------------------------------------------------------
(* infrastructure/cache: RedisTimelineCache.  A command Redis answers is
   executed at once; a command that fails was never executed. *)

defaultTimelineTTL == 5
timelineKeyPrefix == "timeline:"

ErrRedis == Err("redis", "")

\* generateKey
generateKey(userID) == <<timelineKeyPrefix, userID>>

\* json.Marshal of a []*entity.Tweet: a nil slice is written null
MarshalTimeline(timeline) ==
    IF timeline = << >> THEN <<"null">>
    ELSE <<"array", [i \in 1..Len(timeline) |->
                        [ID |-> timeline[i].ID, UserID |-> timeline[i].UserID,
                         Content |-> timeline[i].Content,
                         CreatedAt |-> FormatRFC3339Nano(timeline[i].CreatedAt)]]>>

\* json.Unmarshal into a []*entity.Tweet
UnmarshalTimeline(val) ==
    IF val = <<"null">> THEN [err |-> Nil, timeline |-> << >>]
    ELSE IF /\ Len(val) = 2
            /\ val[1] = "array"
            /\ \A i \in 1..Len(val[2]) : ParseRFC3339Nano(val[2][i].CreatedAt).err = Nil
    THEN [err |-> Nil,
          timeline |-> [i \in 1..Len(val[2]) |->
                          [ID |-> val[2][i].ID, UserID |-> val[2][i].UserID,
                           Content |-> val[2][i].Content,
                           CreatedAt |-> ParseRFC3339Nano(val[2][i].CreatedAt).t]]]
    ELSE [err |-> Err("unmarshal", ""), timeline |-> << >>]

\* the keys Redis still holds at time t
RedisLive(r, t) == {k \in DOMAIN r : t < r[k].exp}

\* Redis at time t: the keys whose time to live has elapsed are gone
RedisAt(r, t) == [k \in RedisLive(r, t) |-> r[k]]

\* DEL key
RedisDel(r, key) == [k \in DOMAIN r \ {key} |-> r[k]]

\* SET key val EX ttl
RedisSet(r, t, key, val, ttl) ==
    [k \in DOMAIN r \cup {key} |->
        IF k = key THEN [val |-> val, exp |-> t + ttl] ELSE r[k]]

\* an InvalidateTimeline that takes a DEL that removed nothing for an error
InvalidateMissingIsError(r, userID, up) ==
    IF up /\ generateKey(userID) \in DOMAIN r
    THEN [err |-> Nil, redis |-> RedisDel(r, generateKey(userID))]
    ELSE [err |-> ErrRedis, redis |-> r]

\* an InvalidateTimeline that returns nil without the DEL
InvalidateKeepsEntry(r, userID, up) == [err |-> Nil, redis |-> r]

\* RedisTimelineCache.InvalidateTimeline; up: Redis answers the command
InvalidateTimeline(r, userID, up) ==
    IF up THEN [err |-> Nil, redis |-> RedisDel(r, generateKey(userID))]
    ELSE [err |-> ErrRedis, redis |-> r]

\* RedisTimelineCache.SetTimeline
SetTimeline(r, t, userID, timeline, up) ==
    IF up
    THEN [err |-> Nil,
          redis |-> RedisSet(r, t, generateKey(userID), MarshalTimeline(timeline),
                             defaultTimelineTTL)]
    ELSE [err |-> ErrRedis, redis |-> r]

\* what GetTimeline has once its GET is over: the result it will return, the
\* state of Redis, and del, whether InvalidateTimeline is called before it
\* returns
Got(timeline, found, err, r, del) ==
    [timeline |-> timeline, found |-> found, err |-> err, redis |-> r, del |-> del]

\* a GetTimeline whose hit gives the entry a new time to live (GETEX)
GetTimelineRefreshesTTL(r, t, userID, up) ==
    LET key == generateKey(userID) IN
    IF ~up THEN Got(<< >>, FALSE, ErrRedis, r, FALSE)
    ELSE IF key \notin RedisLive(r, t) THEN Got(<< >>, FALSE, Nil, r, FALSE)
    ELSE LET d == UnmarshalTimeline(r[key].val) IN
         IF d.err # Nil THEN Got(<< >>, FALSE, d.err, r, TRUE)
         ELSE Got(d.timeline, TRUE, Nil,
                  RedisSet(r, t, key, r[key].val, defaultTimelineTTL), FALSE)

\* a GetTimeline that reports a GET that failed as a miss
GetTimelineErrorIsMiss(r, t, userID, up) ==
    LET key == generateKey(userID) IN
    IF ~up \/ key \notin RedisLive(r, t) THEN Got(<< >>, FALSE, Nil, r, FALSE)
    ELSE LET d == UnmarshalTimeline(r[key].val) IN
         IF d.err # Nil THEN Got(<< >>, FALSE, d.err, r, TRUE)
         ELSE Got(d.timeline, TRUE, Nil, r, FALSE)

\* RedisTimelineCache.GetTimeline up to its GET and the decoding of the value;
\* up: Redis answers the GET.  The GET changes nothing; on a value that does
\* not decode the function goes on to InvalidateTimeline, a command of its
\* own, whose error it drops, and returns the decoding error
GetTimeline(r, t, userID, up) ==
    LET key == generateKey(userID) IN
    IF ~up THEN Got(<< >>, FALSE, ErrRedis, r, FALSE)
    ELSE IF key \notin RedisLive(r, t) THEN Got(<< >>, FALSE, Nil, r, FALSE)
    ELSE LET d == UnmarshalTimeline(r[key].val) IN
         IF d.err # Nil THEN Got(<< >>, FALSE, d.err, r, TRUE)
         ELSE Got(d.timeline, TRUE, Nil, r, FALSE)

\* a call on the timeline cache, as an operation's record lists it
Call(name, userID, err) == [call |-> name, user |-> userID, ok |-> err = Nil]

----------------------------------------------------------------------------
(* Requests.  A request is served by a goroutine of the server or by an
   instance of the Lambda function, and nothing orders the calls of two
   requests: every action below is one call on DynamoDB or Redis, or one
   critical section of an in-memory repository, of one request, and the
   requests in flight take their steps in any order.  procs[p] holds the
   request in slot p between two of its calls: what it was asked, where it is
   (pc), and what it holds in its locals.

   ret is what the step just taken handed back: the operation that returned,
   its arguments, the error and the timeline it returned, where a returned
   timeline came from ("stores": it was assembled, "hit": it was the cached
   one), and the calls it made on the timeline cache, in order; NoRet when the
   step was not the last of its request.  Observations kept with a request:
     hadEntry  its user's timeline was cached when the request began;
     prev      the operation that returned in the step before it began;
     alone     no step of anybody else was taken since it began;
     from      what the stores held when it began, while it is alone;
     mustSee   the user's tweets whose Save had returned when it began;
     ptr       the user whose stored object the request holds a pointer to
               (local mode: the in-memory user repository hands out its own
               objects);
     dropped   the error of the InvalidateTimeline that cache.GetTimeline
               called on a value it could not decode, which it drops. *)

Writes == {"CreateTweet", "Delete", "FollowUser", "UnfollowUser"}

\* the user's timeline is cached: in userTimeline, or under a key Redis holds
Cached(userID) ==
    IF mode = "local" THEN userID \in DOMAIN userTimeline
    ELSE generateKey(userID) \in RedisLive(redis, now)

\* what the stores and the caches hold
Stores ==
    [users |-> users, tweets |-> tweets, userTweets |-> userTweets,
     userTimeline |-> userTimeline, usersTable |-> usersTable,
     tweetsTable |-> tweetsTable, redis |-> redis, now |-> now]

\* the stores of a request that is not alone: nothing is compared with them
NoStores ==
    [users |-> << >>, tweets |-> << >>, userTweets |-> << >>, userTimeline |-> << >>,
     usersTable |-> << >>, tweetsTable |-> << >>, redis |-> << >>, now |-> 0]

\* the operation that returned in the step just taken, when it is a write or
\* a GetTimeline that succeeded
PrevOp ==
    IF ret.op \in Writes \cup {"GetTimeline"} /\ ret.err = Nil
    THEN <<[op |-> ret.op, user |-> ret.user, other |-> ret.other,
            tweet |-> ret.tweet, hadEntry |-> ret.hadEntry,
            timeline |-> ret.timeline, alone |-> ret.alone]>>
    ELSE << >>

\* a free slot
Idle ==
    [op |-> "idle", pc |-> "idle", user |-> None, other |-> None, tweet |-> NoTweet,
     at |-> 0, content |-> <<>>, following |-> {}, pending |-> {}, tasks |-> << >>,
     all |-> <<>>, mu |-> None, firstErr |-> Nil, cacheErr |-> Nil, calls |-> <<>>,
     result |-> <<>>, source |-> "none", mustSee |-> {}, hadEntry |-> FALSE,
     prev |-> << >>, alone |-> TRUE, from |-> NoStores, ptr |-> None,
     dropped |-> Nil]

Proc(op, pc, user, other, tweet, at, following, pending, all, result, source, mustSee) ==
    [Idle EXCEPT !.op = op, !.pc = pc, !.user = user, !.other = other,
                 !.tweet = tweet, !.at = at, !.following = following,
                 !.pending = pending, !.all = all, !.result = result,
                 !.source = source, !.mustSee = mustSee]

\* the slot a new request takes
FreeSlot(p) ==
    /\ p \in DOMAIN procs
    /\ procs[p] = Idle
    /\ \A q \in 1..(p - 1) : procs[q] # Idle

\* nobody is between two calls of a request
Quiet == \A p \in DOMAIN procs : procs[p] = Idle

\* the request in slot p is op and its next call is pc
At(p, op, pc) == p \in DOMAIN procs /\ procs[p].op = op /\ procs[p].pc = pc

\* what the specification watches: "tweets", "follows", "authors" in acked,
\* "history" in hadEntry and prev, "stores" in from
Watching(kind) == <<"watch", kind>> \in acked

\* the tweets whose Save has returned and which nobody has asked to delete
AckedTweets ==
    {id \in 1..tweetCount :
        <<"saved", id>> \in acked /\ <<"deleteAsked", id>> \notin acked}

\* the request op(user, other) as it begins
Asked(op, user, other) ==
    [Idle EXCEPT !.op = op, !.user = user, !.other = other,
                 !.hadEntry = (Watching("history") /\ user # None /\ Cached(user)),
                 !.prev = IF Watching("history") THEN PrevOp ELSE << >>,
                 !.from = IF Watching("stores") THEN Stores ELSE NoStores]

\* a request in flight has seen a step that was not its own
Disturbed(q) ==
    IF q.op = "idle" THEN q ELSE [q EXCEPT !.alone = FALSE, !.from = NoStores]

\* the request in slot p is now q
Becomes(p, q) ==
    procs' = [i \in DOMAIN procs |-> IF i = p THEN q ELSE Disturbed(procs[i])]

\* a step of something that holds no slot
Others == procs' = [i \in DOMAIN procs |-> Disturbed(procs[i])]

\* what the request q hands back
Returned(q, err, timeline, source) ==
    [op |-> q.op, user |-> q.user, other |-> q.other, tweet |-> q.tweet,
     content |-> q.content, err |-> err, timeline |-> timeline, source |-> source,
     calls |-> q.calls,
     hadEntry |-> (q.op \in Writes /\ err = Nil /\ q.hadEntry),
     prev |-> IF q.op = "GetTimeline" /\ err = Nil THEN q.prev ELSE << >>,
     alone |-> q.alone, from |-> q.from, mustSee |-> q.mustSee,
     dropped |-> q.dropped]

\* the request q returns an error only
Failed(q, err) == Returned(q, err, <<>>, "none")

\* a request served in one step
Ret(op, user, other, tweet, err, timeline, source, calls) ==
    Returned([Asked(op, user, other) EXCEPT !.tweet = tweet, !.calls = calls],
             err, timeline, source)

RetErr(op, user, other, tweet, err, calls) ==
    Ret(op, user, other, tweet, err, <<>>, "none", calls)

\* the step just taken returned from no operation
NoRet == [Failed(Idle, Nil) EXCEPT !.op = "none"]

\* the request in slot p goes on to its next call
Goes(p, q) == Becomes(p, q) /\ ret' = NoRet

\* the request in slot p returns r
Returns(p, r) == Becomes(p, Idle) /\ ret' = r

\* what a write that returns nil adds to the history
AckOf(q) ==
    IF q.op = "CreateTweet" /\ Watching("tweets") THEN {<<"saved", q.tweet>>}
    ELSE IF q.op = "FollowUser" /\ Watching("follows")
    THEN {<<"followed", q.user, q.other>>}
    ELSE IF q.op = "UnfollowUser" /\ Watching("follows")
    THEN {<<"unfollowed", q.user, q.other>>}
    ELSE {}

\* what a write that begins adds to the history
AskOf(q) ==
    IF q.op = "Delete" /\ Watching("tweets") THEN {<<"deleteAsked", q.tweet>>}
    ELSE IF q.op = "FollowUser" /\ Watching("follows")
    THEN {<<"followAsked", q.user, q.other>>}
    ELSE IF q.op = "UnfollowUser" /\ Watching("follows")
    THEN {<<"unfollowAsked", q.user, q.other>>}
    ELSE {}

\* the write in slot p returns nil
Done(p, q) ==
    /\ Returns(p, Failed(q, Nil))
    /\ acked' = acked \cup AckOf(q)

\* the CreateTweet requests whose tweet has not reached the store yet
Unsaved == {p \in DOMAIN procs : procs[p].op = "CreateTweet" /\ procs[p].tweet = NoTweet}

\* tweet ids are handed out in the order the tweets reach the store; the
\* tweets stored and about to be
TweetsBegun == tweetCount + Cardinality(Unsaved)

\* no object outside the repositories, no backing array
NoHeap == [objects |-> << >>, arrays |-> << >>]

\* the state before the first request: main has wired the repositories of
\* its mode and the cache it was given; watched: what acked keeps
InitWith(m, cache, watched) ==
    /\ users = << >>
    /\ tweets = << >>
    /\ userTweets = << >>
    /\ userTimeline = << >>
    /\ usersTable = << >>
    /\ tweetsTable = << >>
    /\ redis = << >>
    /\ now = 0
    /\ mode = m
    /\ timelineCache = cache
    /\ userCount = 0
    /\ tweetCount = 0
    /\ ret = NoRet
    /\ procs = [p \in 1..MaxProcs |-> Idle]
    /\ acked = {<<"watch", kind>> : kind \in watched}
    /\ lastSet = [u \in UserIDs |-> << >>]
    /\ heap = NoHeap
    /\ held = {}

MemInit == InitWith("local", "nil", {"history"})

\* main found Redis (cache = "redis") or went on without a cache ("nil")
DdbInitWith(cache) == InitWith("lambda", cache, {"history"})

DdbInit == DdbInitWith("redis")

----------------------------------------------------------------------------
(* Lambda mode: the use cases over the DynamoDB repositories and the Redis
   timeline cache, call by call.  The BOOLEAN parameter of a step says
   whether DynamoDB or Redis answers the call the step makes. *)

lambdaFrame == UNCHANGED <<memVars, mode, timelineCache, lastSet, heap, held>>

\* UserUseCase.CreateUser: one PutItem
DdbCreateUser(putUp) ==
    /\ userCount < Len(UserSeq)
    /\ LET userID == UserSeq[userCount + 1] IN
       IF putUp
       THEN /\ usersTable' = DdbPutUser(usersTable, NewUser(userID))
            /\ userCount' = userCount + 1
            /\ ret' = RetErr("CreateUser", userID, None, NoTweet, Nil, <<>>)
       ELSE /\ ret' = RetErr("CreateUser", None, None, NoTweet,
                             ErrStore("failed to save user to DynamoDB"), <<>>)
            /\ UNCHANGED <<usersTable, userCount>>
    /\ Others
    /\ UNCHANGED <<tweetsTable, redis, now, tweetCount, acked>>
    /\ lambdaFrame

\* the fetch list of GetTimeline: the user, then the followed users
idsToFetch(user) == <<user.ID>> \o SetToSeq(user.Following)

\* what the fetch tasks append to allTweets when all of them succeed at once
DdbCollect(table, user) ==
    Flatten([i \in 1..Len(idsToFetch(user)) |->
                queryTweetsByUserID(table, idsToFetch(user)[i])])

\* an invalidation that empties the cache, as the in-memory repository's does
InvalidateAllAfterWrite(r, userID, invUp) ==
    [redis |-> << >>, calls |-> <<Call("InvalidateTimeline", userID, Nil)>>]

\* the InvalidateTimeline that ends Save, Delete, FollowUser and UnfollowUser
\* where there is a cache: Redis after it and the call made; its error is
\* logged
InvalidateAfterWrite(r, userID, invUp) ==
    LET i == InvalidateTimeline(r, userID, invUp) IN
    [redis |-> i.redis, calls |-> <<Call("InvalidateTimeline", userID, i.err)>>]

\* the write of the request in slot p has reached DynamoDB: with a cache the
\* invalidation is still to come, without one the request returns nil
AfterWrite(p, q) ==
    IF timelineCache = "nil" THEN Done(p, q)
    ELSE Goes(p, [q EXCEPT !.pc = "invalidate"]) /\ UNCHANGED acked

(* TweetUseCase.CreateTweet over DynamoDBTweetRepository.Save *)

\* userRepository.FindByID (GetItem), then entity.NewTweet
StartCreateTweet(p, userID, content, at, up) ==
    /\ FreeSlot(p)
    /\ TweetsBegun < MaxTweets
    /\ LET q == [Asked("CreateTweet", userID, None) EXCEPT !.content = content,
                                                            !.at = at]
       IN IF ~up
          THEN Returns(p, Failed(q, ErrStore("failed to get user from DynamoDB")))
          ELSE IF DdbFindUser(userID) = NilPtr
          THEN Returns(p, Failed(q, ErrUserNotFound))
          ELSE IF NewTweet(NoTweet, userID, content, at).err # Nil
          THEN Returns(p, Failed(q, NewTweet(NoTweet, userID, content, at).err))
          ELSE Goes(p, [q EXCEPT !.pc = "putItem"])
    /\ UNCHANGED <<usersTable, tweetsTable, redis, now, userCount, tweetCount, acked>>
    /\ lambdaFrame

\* DynamoDBTweetRepository.Save: the PutItem
StepPutItem(p, up) ==
    /\ At(p, "CreateTweet", "putItem")
    /\ LET q == procs[p]
           tweet == NewTweet(tweetCount + 1, q.user, q.content, q.at).tweet[1]
       IN IF ~up
          THEN /\ Returns(p, Failed(q, ErrStore("failed to save tweet to DynamoDB")))
               /\ UNCHANGED <<tweetsTable, tweetCount, acked>>
          ELSE /\ tweetsTable' = DdbPutTweet(tweetsTable, tweet)
               /\ tweetCount' = tweetCount + 1
               /\ AfterWrite(p, [q EXCEPT !.tweet = tweet.ID])
    /\ UNCHANGED <<usersTable, redis, now, userCount>>
    /\ lambdaFrame

(* DynamoDBTweetRepository.Delete *)

\* r.FindByID (GetItem): the tweet and its author
StartDelete(p, id, up) ==
    /\ FreeSlot(p)
    /\ LET q == [Asked("Delete", None, None) EXCEPT !.tweet = id]
           found == DdbFindTweet(tweetsTable, id)
       IN IF ~up \/ found.err # Nil
          THEN /\ Returns(p, Failed(q, ErrStore("failed to find tweet before deleting")))
               /\ UNCHANGED acked
          ELSE IF found.tweet = NilPtr
          THEN /\ Returns(p, Failed(q, ErrTweetNotFound))
               /\ UNCHANGED acked
          ELSE /\ Goes(p, [q EXCEPT !.pc = "deleteItem",
                                    !.user = found.tweet[1].UserID,
                                    !.hadEntry = (Watching("history")
                                                  /\ Cached(found.tweet[1].UserID))])
               /\ acked' = acked \cup AskOf(q)
    /\ UNCHANGED <<usersTable, tweetsTable, redis, now, userCount, tweetCount>>
    /\ lambdaFrame

\* the DeleteItem
StepDeleteItem(p, up) ==
    /\ At(p, "Delete", "deleteItem")
    /\ LET q == procs[p] IN
       IF ~up
       THEN /\ Returns(p, Failed(q, ErrStore("failed to delete tweet from DynamoDB")))
            /\ UNCHANGED <<tweetsTable, acked>>
       ELSE /\ tweetsTable' = DdbDeleteItem(tweetsTable, q.tweet)
            /\ AfterWrite(p, q)
    /\ UNCHANGED <<usersTable, redis, now, userCount, tweetCount>>
    /\ lambdaFrame

(* UserUseCase.FollowUser and UnfollowUser *)

\* a lookup of the followed user that takes any id for a user
FindFollowedAny(table, followedID) == <<NewUser(followedID)>>

\* userRepository.FindByID(followedID) when GetItem answers
FindFollowed(table, followedID) ==
    IF followedID \in DOMAIN table THEN <<fromDynamoDBUser(table[followedID])>>
    ELSE NilPtr

\* userRepository.FindByID(followerID): the follower as the request holds it
StartFollowUser(p, followerID, followedID, up) ==
    /\ FreeSlot(p)
    /\ LET q == Asked("FollowUser", followerID, followedID) IN
       IF ~up
       THEN /\ Returns(p, Failed(q, ErrStore("failed to get user from DynamoDB")))
            /\ UNCHANGED acked
       ELSE IF DdbFindUser(followerID) = NilPtr
       THEN /\ Returns(p, Failed(q, ErrUserNotFound))
            /\ UNCHANGED acked
       ELSE /\ Goes(p, [q EXCEPT !.pc = "findFollowed",
                                 !.following = DdbFindUser(followerID)[1].Following])
            /\ acked' = acked \cup AskOf(q)
    /\ UNCHANGED <<usersTable, tweetsTable, redis, now, userCount, tweetCount>>
    /\ lambdaFrame

\* userRepository.FindByID(followedID), then follower.Follow(followedID) on
\* the follower the request holds
StepFindFollowed(p, up) ==
    /\ At(p, "FollowUser", "findFollowed")
    /\ LET q == procs[p]
           f == Follow([ID |-> q.user, Following |-> q.following], q.other)
       IN IF ~up
          THEN Returns(p, Failed(q, ErrStore("failed to get user from DynamoDB")))
          ELSE IF FindFollowed(usersTable, q.other) = NilPtr
          THEN Returns(p, Failed(q, ErrUserNotFound))
          ELSE IF f.err # Nil
          THEN Returns(p, Failed(q, f.err))
          ELSE Goes(p, [q EXCEPT !.pc = "update", !.following = f.user.Following])
    /\ UNCHANGED <<usersTable, tweetsTable, redis, now, userCount, tweetCount, acked>>
    /\ lambdaFrame

\* userRepository.FindByID(followerID), then follower.Unfollow(followedID)
StartUnfollowUser(p, followerID, followedID, up) ==
    /\ FreeSlot(p)
    /\ LET q == Asked("UnfollowUser", followerID, followedID) IN
       IF ~up
       THEN /\ Returns(p, Failed(q, ErrStore("failed to get user from DynamoDB")))
            /\ UNCHANGED acked
       ELSE IF DdbFindUser(followerID) = NilPtr
       THEN /\ Returns(p, Failed(q, ErrUserNotFound))
            /\ UNCHANGED acked
       ELSE /\ Goes(p, [q EXCEPT !.pc = "update",
                                 !.following =
                                    Unfollow(DdbFindUser(followerID)[1],
                                             followedID).Following])
            /\ acked' = acked \cup AskOf(q)
    /\ UNCHANGED <<usersTable, tweetsTable, redis, now, userCount, tweetCount>>
    /\ lambdaFrame

\* userRepository.Update: the PutItem of the whole user item
StepUpdate(p, up) ==
    /\ p \in DOMAIN procs
    /\ procs[p].op \in {"FollowUser", "UnfollowUser"} /\ procs[p].pc = "update"
    /\ LET q == procs[p] IN
       IF ~up
       THEN /\ Returns(p, Failed(q, ErrStore(IF q.op = "FollowUser"
                                              THEN "failed to update follower after follow"
                                              ELSE "failed to update follower after unfollow")))
            /\ UNCHANGED <<usersTable, acked>>
       ELSE /\ usersTable' = DdbPutUser(usersTable,
                                        [ID |-> q.user, Following |-> q.following])
            /\ AfterWrite(p, q)
    /\ UNCHANGED <<tweetsTable, redis, now, userCount, tweetCount>>
    /\ lambdaFrame

\* the InvalidateTimeline that ends Save, Delete, FollowUser and UnfollowUser
StepInvalidate(p, up) ==
    /\ p \in DOMAIN procs
    /\ procs[p].op \in Writes /\ procs[p].pc = "invalidate"
    /\ LET q == procs[p]
           inv == InvalidateAfterWrite(redis, q.user, up)
       IN /\ redis' = inv.redis
          /\ Done(p, [q EXCEPT !.calls = @ \o inv.calls])
    /\ UNCHANGED <<usersTable, tweetsTable, now, userCount, tweetCount>>
    /\ lambdaFrame

(* TweetUseCase.GetTimeline over DynamoDBTweetRepository.GetTimeline *)

\* the request GetTimeline(userID) as it begins
AskedTimeline(userID) ==
    [Asked("GetTimeline", userID, None) EXCEPT
        !.mustSee = {id \in AckedTweets : id \in DOMAIN tweetsTable
                                          /\ tweetsTable[id].UserID = userID}]

\* a GetTimeline that goes to the repository without looking the user up
StartGetTimelineNoLookup(p, userID, up) ==
    /\ FreeSlot(p)
    /\ Goes(p, [AskedTimeline(userID) EXCEPT
                    !.pc = IF timelineCache = "nil" THEN "findUser" ELSE "cacheGet"])
    /\ UNCHANGED <<usersTable, tweetsTable, redis, now, userCount, tweetCount, acked>>
    /\ lambdaFrame

\* a GetTimeline that goes to the cache without asking whether there is one:
\* the call on the nil interface panics and the request fails
StartGetTimelineAsksNilCache(p, userID, up) ==
    /\ FreeSlot(p)
    /\ LET q == AskedTimeline(userID) IN
       IF ~up
       THEN Returns(p, Failed(q, ErrStore("failed to get user from DynamoDB")))
       ELSE IF DdbFindUser(userID) = NilPtr
       THEN Returns(p, Failed(q, ErrUserNotFound))
       ELSE IF timelineCache = "nil"
       THEN Returns(p, Failed(q, ErrStore("invalid memory address or nil pointer dereference")))
       ELSE Goes(p, [q EXCEPT !.pc = "cacheGet"])
    /\ UNCHANGED <<usersTable, tweetsTable, redis, now, userCount, tweetCount, acked>>
    /\ lambdaFrame

\* TweetUseCase.GetTimeline: userRepository.FindByID (GetItem); the
\* repository asks the cache only when it has one
StartGetTimeline(p, userID, up) ==
    /\ FreeSlot(p)
    /\ LET q == AskedTimeline(userID) IN
       IF ~up
       THEN Returns(p, Failed(q, ErrStore("failed to get user from DynamoDB")))
       ELSE IF DdbFindUser(userID) = NilPtr
       THEN Returns(p, Failed(q, ErrUserNotFound))
       ELSE Goes(p, [q EXCEPT
                        !.pc = IF timelineCache = "nil" THEN "findUser" ELSE "cacheGet"])
    /\ UNCHANGED <<usersTable, tweetsTable, redis, now, userCount, tweetCount, acked>>
    /\ lambdaFrame

\* a lookup that returns the cache's error instead of going on to the stores
StepCacheGetFailsOnError(p, up) ==
    /\ At(p, "GetTimeline", "cacheGet")
    /\ LET q == procs[p]
           get == GetTimeline(redis, now, q.user, up)
           called == [q EXCEPT !.calls = Append(@, Call("GetTimeline", q.user, get.err))]
       IN /\ redis' = get.redis
          /\ IF get.del
             THEN Goes(p, [q EXCEPT !.pc = "cacheHeal", !.cacheErr = get.err])
             ELSE IF get.err # Nil
             THEN Returns(p, Failed(called, get.err))
             ELSE IF get.found
             THEN Returns(p, Returned(called, Nil, get.timeline, "hit"))
             ELSE Goes(p, [called EXCEPT !.pc = "findUser"])
    /\ UNCHANGED <<usersTable, tweetsTable, now, userCount, tweetCount, acked>>
    /\ lambdaFrame

\* a lookup that writes the entry it has just read back to the cache
StepCacheGetStoresOnHit(p, up) ==
    /\ At(p, "GetTimeline", "cacheGet")
    /\ LET q == procs[p]
           get == GetTimeline(redis, now, q.user, up)
           called == [q EXCEPT !.calls = Append(@, Call("GetTimeline", q.user, get.err))]
       IN IF get.del
          THEN /\ redis' = get.redis
               /\ Goes(p, [q EXCEPT !.pc = "cacheHeal", !.cacheErr = get.err])
          ELSE IF get.found
          THEN LET set == SetTimeline(get.redis, now, q.user, get.timeline, up) IN
               /\ redis' = set.redis
               /\ Returns(p, Returned([called EXCEPT !.calls =
                                          Append(@, Call("SetTimeline", q.user, set.err))],
                                      Nil, get.timeline, "hit"))
          ELSE /\ redis' = get.redis
               /\ Goes(p, [called EXCEPT !.pc = "findUser"])
    /\ UNCHANGED <<usersTable, tweetsTable, now, userCount, tweetCount, acked>>
    /\ lambdaFrame

\* DynamoDBTweetRepository.GetTimeline, the cache lookup: the GET of
\* cache.GetTimeline.  A hit is returned; a miss and an error (logged) lead
\* to the stores; on a value that does not decode cache.GetTimeline has its
\* InvalidateTimeline to call before it returns
StepCacheGet(p, up) ==
    /\ At(p, "GetTimeline", "cacheGet")
    /\ LET q == procs[p]
           get == GetTimeline(redis, now, q.user, up)
           called == [q EXCEPT !.calls = Append(@, Call("GetTimeline", q.user, get.err))]
       IN /\ redis' = get.redis
          /\ IF get.del
             THEN Goes(p, [q EXCEPT !.pc = "cacheHeal", !.cacheErr = get.err])
             ELSE IF get.found
             THEN Returns(p, Returned(called, Nil, get.timeline, "hit"))
             ELSE Goes(p, [called EXCEPT !.pc = "findUser"])
    /\ UNCHANGED <<usersTable, tweetsTable, now, userCount, tweetCount, acked>>
    /\ lambdaFrame

\* cache.GetTimeline on a value that did not decode: the DEL of its
\* InvalidateTimeline, whose error is dropped; cache.GetTimeline returns the
\* decoding error (kept in cacheErr), which the repository logs before it goes
\* on to the stores
StepCacheHeal(p, up) ==
    /\ At(p, "GetTimeline", "cacheHeal")
    /\ LET q == procs[p]
           inv == InvalidateTimeline(redis, q.user, up)
       IN /\ redis' = inv.redis
          /\ Goes(p, [q EXCEPT !.pc = "findUser", !.dropped = inv.err,
                               !.calls = Append(@, Call("GetTimeline", q.user, q.cacheErr))])
    /\ UNCHANGED <<usersTable, tweetsTable, now, userCount, tweetCount, acked>>
    /\ lambdaFrame

\* a task of the fetch group, before its query
NewTask == [pc |-> "query", userTweets |-> <<>>, read |-> <<>>]

\* r.userRepo.FindByID (GetItem), the fetch list made from user.Following, and
\* one task started per id of the list
StepFindUser(p, up) ==
    /\ At(p, "GetTimeline", "findUser")
    /\ LET q == procs[p] IN
       IF ~up
       THEN Returns(p, Failed(q, ErrStore("failed to get user for timeline")))
       ELSE IF DdbFindUser(q.user) = NilPtr
       THEN Returns(p, Failed(q, ErrUserNotFound))
       ELSE LET user == DdbFindUser(q.user)[1] IN
            Goes(p, [q EXCEPT !.pc = "fetch", !.following = user.Following,
                              !.tasks = [id \in Range(idsToFetch(user)) |-> NewTask]])
    /\ UNCHANGED <<usersTable, tweetsTable, redis, now, userCount, tweetCount, acked>>
    /\ lambdaFrame

\* the task of fetchID of the GetTimeline in slot p is at pc
TaskAt(p, fetchID, pc) ==
    /\ At(p, "GetTimeline", "fetch")
    /\ fetchID \in DOMAIN procs[p].tasks
    /\ procs[p].tasks[fetchID].pc = pc

\* a step of a task: nothing but the request's locals changes
taskFrame ==
    /\ UNCHANGED <<usersTable, tweetsTable, redis, now, userCount, tweetCount, acked>>
    /\ lambdaFrame

\* queryTweetsByUserIDWithContext answers, or fails and the task returns the
\* error, which the group keeps when it is the first
TaskQuery(p, fetchID, ok) ==
    /\ TaskAt(p, fetchID, "query")
    /\ Goes(p, IF ok
               THEN [procs[p] EXCEPT !.tasks[fetchID] =
                        [@ EXCEPT !.pc = "lock",
                                  !.userTweets = queryTweetsByUserID(tweetsTable, fetchID)]]
               ELSE [procs[p] EXCEPT !.tasks[fetchID] = [@ EXCEPT !.pc = "failed"],
                                     !.firstErr = IF @ = Nil THEN ErrFetch(fetchID) ELSE @])
    /\ taskFrame

\* a lock that anybody can take at any time: no mutual exclusion
CanLockAlways(mu) == TRUE

\* sync.Mutex.Lock returns only when nobody holds the mutex
CanLock(mu) == mu = None

\* the task's critical section: mu.Lock(), allTweets = append(allTweets,
\* userTweets...), mu.Unlock(); the task returns nil
TaskAppend(p, fetchID) ==
    /\ TaskAt(p, fetchID, "lock")
    /\ CanLock(procs[p].mu)
    /\ Goes(p, [procs[p] EXCEPT !.all = @ \o procs[p].tasks[fetchID].userTweets,
                                !.tasks[fetchID] = [@ EXCEPT !.pc = "done"]])
    /\ taskFrame

(* the critical section, access by access: the append of a slice is a read
   of the slice header followed by a write *)

\* mu.Lock()
TaskLock(p, fetchID) ==
    /\ TaskAt(p, fetchID, "lock")
    /\ CanLock(procs[p].mu)
    /\ Goes(p, [procs[p] EXCEPT !.mu = fetchID,
                                !.tasks[fetchID] = [@ EXCEPT !.pc = "read"]])
    /\ taskFrame

\* append reads allTweets
TaskRead(p, fetchID) ==
    /\ TaskAt(p, fetchID, "read")
    /\ Goes(p, [procs[p] EXCEPT !.tasks[fetchID] =
                    [@ EXCEPT !.pc = "write", !.read = procs[p].all]])
    /\ taskFrame

\* the result of append is assigned to allTweets
TaskWrite(p, fetchID) ==
    /\ TaskAt(p, fetchID, "write")
    /\ Goes(p, [procs[p] EXCEPT
                    !.all = procs[p].tasks[fetchID].read
                                \o procs[p].tasks[fetchID].userTweets,
                    !.tasks[fetchID] = [@ EXCEPT !.pc = "unlock", !.read = <<>>]])
    /\ taskFrame

\* mu.Unlock(); the task returns nil
TaskUnlock(p, fetchID) ==
    /\ TaskAt(p, fetchID, "unlock")
    /\ Goes(p, [procs[p] EXCEPT !.mu = IF @ = fetchID THEN None ELSE @,
                                !.tasks[fetchID] = [@ EXCEPT !.pc = "done"]])
    /\ taskFrame

\* every task of the group has returned
AllTasksFinished(p) ==
    /\ At(p, "GetTimeline", "fetch")
    /\ \A id \in DOMAIN procs[p].tasks : procs[p].tasks[id].pc \in {"done", "failed"}

\* a join that drops the tweets of the tasks that failed and goes on: a
\* partial list, sorted, stored and returned
JoinPartial(p, up) ==
    /\ AllTasksFinished(p)
    /\ LET q == procs[p] IN
       \E allTweets \in SortSlice(q.all) :
            LET set == SetTimeline(redis, now, q.user, allTweets, up) IN
            /\ redis' = set.redis
            /\ Returns(p, Returned([q EXCEPT !.calls =
                                       Append(@, Call("SetTimeline", q.user, set.err))],
                                   Nil, allTweets, "stores"))
    /\ UNCHANGED <<usersTable, tweetsTable, now, userCount, tweetCount, acked>>
    /\ lambdaFrame

\* g.Wait() returns: the first error of the group is returned; on nil,
\* sort.Slice, then SetTimeline where there is a cache (its error is logged),
\* and the sorted list is returned
Join(p, up) ==
    /\ AllTasksFinished(p)
    /\ LET q == procs[p] IN
       IF q.firstErr # Nil
       THEN /\ Returns(p, Failed(q, q.firstErr))
            /\ UNCHANGED redis
       ELSE \E allTweets \in SortSlice(q.all) :
            IF timelineCache = "nil"
            THEN /\ Returns(p, Returned(q, Nil, allTweets, "stores"))
                 /\ UNCHANGED redis
            ELSE LET set == SetTimeline(redis, now, q.user, allTweets, up) IN
                 /\ redis' = set.redis
                 /\ Returns(p, Returned([q EXCEPT !.calls =
                                            Append(@, Call("SetTimeline", q.user, set.err))],
                                        Nil, allTweets, "stores"))
    /\ UNCHANGED <<usersTable, tweetsTable, now, userCount, tweetCount, acked>>
    /\ lambdaFrame

\* d minutes pass; Redis drops the keys whose time to live has elapsed
TimePasses(d) ==
    /\ now + d <= MaxClock
    /\ now' = now + d
    /\ redis' = RedisAt(redis, now + d)
    /\ ret' = RetErr("TimePasses", None, None, NoTweet, Nil, <<>>)
    /\ Others
    /\ UNCHANGED <<usersTable, tweetsTable, userCount, tweetCount, acked>>
    /\ lambdaFrame

\* the steps of the requests in the slots S that call DynamoDB or no service,
\* their calls answered as B allows (BOOLEAN: any call may fail), with at most
\* N tweets ever posted, at instants 1..T
DdbStoreSteps(S, B, N, T) ==
    \/ \E up \in B : DdbCreateUser(up)
    \/ \E p \in S, u \in UserIDs, c \in PostedContents, at \in 1..T, up \in B :
            /\ TweetsBegun < N
            /\ StartCreateTweet(p, u, c, at, up)
    \/ \E p \in S, up \in B : StepPutItem(p, up)
    \/ \E p \in S, id \in 1..N, up \in B : StartDelete(p, id, up)
    \/ \E p \in S, up \in B : StepDeleteItem(p, up)
    \/ \E p \in S, u \in UserIDs, v \in UserIDs, up \in B : StartFollowUser(p, u, v, up)
    \/ \E p \in S, up \in B : StepFindFollowed(p, up)
    \/ \E p \in S, u \in UserIDs, v \in UserIDs, up \in B : StartUnfollowUser(p, u, v, up)
    \/ \E p \in S, up \in B : StepUpdate(p, up)
    \/ \E p \in S, u \in UserIDs, up \in B : StartGetTimeline(p, u, up)
    \/ \E p \in S, up \in B : StepFindUser(p, up)
    \/ \E p \in S, id \in UserIDs, ok \in B : TaskQuery(p, id, ok)
    \/ \E p \in S, id \in UserIDs : TaskAppend(p, id)
    \/ \E p \in S, up \in B : Join(p, up)

\* the steps that call Redis, where main found it and no stored value is
\* foreign
DdbCacheSteps(S, B) ==
    \/ \E p \in S, up \in B : StepInvalidate(p, up)
    \/ \E p \in S, up \in B : StepCacheGet(p, up)

DdbRequests(S, B, N, T) ==
    \/ DdbStoreSteps(S, B, N, T)
    \/ DdbCacheSteps(S, B)

\* DynamoDB and Redis answer every call
DdbNext ==
    \/ DdbRequests(1..MaxInFlight, {TRUE}, MaxTweets, MaxTime)
    \/ TimePasses(defaultTimelineTTL)

SpecDdb == DdbInit /\ [][DdbNext]_vars

\* main went on without a cache
DdbNoCacheNext ==
    \/ DdbStoreSteps(1..MaxInFlight, {TRUE}, MaxTweets, MaxTime)
    \/ TimePasses(defaultTimelineTTL)

SpecDdbNoCache == DdbInitWith("nil") /\ [][DdbNoCacheNext]_vars

\* any call on DynamoDB or Redis may fail
DdbFaultsNext ==
    \/ DdbRequests(1..MaxInFlight, BOOLEAN, SmallMaxTweets, SmallMaxTime)
    \/ TimePasses(defaultTimelineTTL)

SpecDdbFaults == DdbInit /\ [][DdbFaultsNext]_vars

----------------------------------------------------------------------------
(* Local mode: the use cases over the in-memory repositories, critical
   section by critical section.  main passes a nil TimelineCache to
   NewUserUseCase; the tweet repository caches timelines in userTimeline.
   UserRepository.FindByID returns the stored *entity.User itself: a request
   that holds it reads and changes the object the repository holds, under no
   lock.  An object taken out of the repository while a request holds it
   lives on in heap until its last holder returns. *)

memFrame == UNCHANGED <<ddbVars, mode, timelineCache, held>>

\* the positions at which a call holds the tweet repository's r.mutex for
\* writing across two steps
LockedPcs == {"invalidate", "sort"}

\* the calls that hold r.mutex for writing
WriteLocked == {p \in DOMAIN procs : procs[p].pc \in LockedPcs}

\* a mutex that never makes a caller wait
MutexCanLockAlways(holders) == TRUE

\* r.mutex.Lock and r.mutex.RLock return once no call holds the write lock
\* (a read lock is never held across two steps)
MutexCanLock(holders) == holders = {}

\* the object a request holds a pointer to
Object(id) == IF id \in DOMAIN users THEN users[id] ELSE heap.objects[id]

\* the objects of h that a request still holds after the step
Kept(h) == [id \in {i \in DOMAIN h : \E p \in DOMAIN procs' : procs'[p].ptr = i} |->
                h[id]]

\* heap after a step that leaves the arrays as they are
HeapKeeps(h) == heap' = [heap EXCEPT !.objects = Kept(h)]

\* the object of id is now user: in the repository, or out of it
ObjectBecomes(id, user) ==
    IF id \in DOMAIN users
    THEN users' = [users EXCEPT ![id] = user] /\ HeapKeeps(heap.objects)
    ELSE UNCHANGED users
         /\ HeapKeeps([i \in DOMAIN heap.objects |->
                        IF i = id THEN user ELSE heap.objects[i]])

\* lastSet[u], where the specification watches it: the authors the cached
\* timeline of u was built from
AuthorsAfter(last) ==
    lastSet' = IF Watching("authors") THEN last ELSE lastSet

\* UserUseCase.CreateUser: one Save on the user repository
MemCreateUser ==
    /\ userCount < Len(UserSeq)
    /\ LET userID == UserSeq[userCount + 1] IN
        /\ users' = MemPutUser(users, NewUser(userID))
        /\ ret' = RetErr("CreateUser", userID, None, NoTweet, Nil, <<>>)
    /\ userCount' = userCount + 1
    /\ Others
    /\ HeapKeeps(heap.objects)
    /\ UNCHANGED <<tweets, userTweets, userTimeline, tweetCount, acked, lastSet>>
    /\ memFrame

\* memory UserRepository.Delete: one critical section
MemDeleteUser(id) ==
    /\ IF id \notin DOMAIN users
       THEN /\ ret' = RetErr("DeleteUser", id, None, NoTweet, ErrUserNotFound, <<>>)
            /\ UNCHANGED users
            /\ Others
            /\ HeapKeeps(heap.objects)
       ELSE /\ users' = [u \in DOMAIN users \ {id} |-> users[u]]
            /\ ret' = RetErr("DeleteUser", id, None, NoTweet, Nil, <<>>)
            /\ Others
            /\ HeapKeeps([i \in DOMAIN heap.objects \cup {id} |->
                            IF i = id THEN users[id] ELSE heap.objects[i]])
    /\ UNCHANGED <<tweets, userTweets, userTimeline, userCount, tweetCount, acked,
                   lastSet>>
    /\ memFrame

(* TweetUseCase.CreateTweet over TweetRepository.Save *)

\* userRepository.FindByID, under the user repository's read lock, then
\* entity.NewTweet
MemStartCreateTweet(p, userID, content, at) ==
    /\ FreeSlot(p)
    /\ TweetsBegun < MaxTweets
    /\ LET q == [Asked("CreateTweet", userID, None) EXCEPT !.content = content,
                                                            !.at = at]
       IN IF MemFindUser(userID) = NilPtr
          THEN Returns(p, Failed(q, ErrUserNotFound))
          ELSE IF NewTweet(NoTweet, userID, content, at).err # Nil
          THEN Returns(p, Failed(q, NewTweet(NoTweet, userID, content, at).err))
          ELSE Goes(p, [q EXCEPT !.pc = "lock"])
    /\ HeapKeeps(heap.objects)
    /\ UNCHANGED <<users, tweets, userTweets, userTimeline, userCount, tweetCount,
                   acked, lastSet>>
    /\ memFrame

\* a Save that stores the tweet and leaves userTimeline as it is
MemStepSaveNoInvalidate(p) ==
    /\ At(p, "CreateTweet", "lock")
    /\ MutexCanLock(WriteLocked)
    /\ LET q == procs[p]
           tweet == NewTweet(tweetCount + 1, q.user, q.content, q.at).tweet[1]
       IN /\ tweets' = MemStoreTweet(tweets, tweet)
          /\ userTweets' = MemAppendTweet(userTweets, tweet)
          /\ UNCHANGED <<userTimeline, lastSet>>
          /\ Done(p, [q EXCEPT !.tweet = tweet.ID])
    /\ tweetCount' = tweetCount + 1
    /\ HeapKeeps(heap.objects)
    /\ UNCHANGED <<users, userCount>>
    /\ memFrame

\* TweetRepository.Save, its critical section: the tweet is stored, appended
\* to its author's list, and the timelines are invalidated
MemStepSave(p) ==
    /\ At(p, "CreateTweet", "lock")
    /\ MutexCanLock(WriteLocked)
    /\ LET q == procs[p]
           tweet == NewTweet(tweetCount + 1, q.user, q.content, q.at).tweet[1]
       IN /\ tweets' = MemStoreTweet(tweets, tweet)
          /\ userTweets' = MemAppendTweet(userTweets, tweet)
          /\ userTimeline' = invalidateTimelines(tweet.UserID)
          /\ AuthorsAfter([u \in UserIDs |->
                            IF u \in DOMAIN invalidateTimelines(tweet.UserID)
                            THEN lastSet[u] ELSE << >>])
          /\ Done(p, [q EXCEPT !.tweet = tweet.ID])
    /\ tweetCount' = tweetCount + 1
    /\ HeapKeeps(heap.objects)
    /\ UNCHANGED <<users, userCount>>
    /\ memFrame

\* a Delete that invalidates the timelines before it looks the tweet up
MemDeleteTweetInvalidatesFirst(id) ==
    /\ MutexCanLock(WriteLocked)
    /\ IF id \notin DOMAIN tweets
       THEN /\ ret' = RetErr("Delete", None, None, id, ErrTweetNotFound, <<>>)
            /\ userTimeline' = invalidateTimelines(None)
            /\ UNCHANGED <<tweets, userTweets, acked, lastSet>>
       ELSE LET userID == tweets[id].UserID IN
            /\ tweets' = [i \in DOMAIN tweets \ {id} |-> tweets[i]]
            /\ userTweets' = [userTweets EXCEPT ![userID] = RemoveFirst(@, id)]
            /\ userTimeline' = invalidateTimelines(userID)
            /\ AuthorsAfter([u \in UserIDs |->
                              IF u \in DOMAIN invalidateTimelines(userID)
                              THEN lastSet[u] ELSE << >>])
            /\ ret' = RetErr("Delete", userID, None, id, Nil, <<>>)
            /\ acked' = acked \cup AskOf([Idle EXCEPT !.op = "Delete", !.tweet = id])
    /\ Others
    /\ HeapKeeps(heap.objects)
    /\ UNCHANGED <<users, userCount, tweetCount>>
    /\ memFrame

\* TweetRepository.Delete: one critical section
MemDeleteTweet(id) ==
    /\ MutexCanLock(WriteLocked)
    /\ IF id \notin DOMAIN tweets
       THEN /\ ret' = RetErr("Delete", None, None, id, ErrTweetNotFound, <<>>)
            /\ UNCHANGED <<tweets, userTweets, userTimeline, acked, lastSet>>
       ELSE LET userID == tweets[id].UserID IN
            /\ tweets' = [i \in DOMAIN tweets \ {id} |-> tweets[i]]
            /\ userTweets' = [userTweets EXCEPT ![userID] = RemoveFirst(@, id)]
            /\ userTimeline' = invalidateTimelines(userID)
            /\ AuthorsAfter([u \in UserIDs |->
                              IF u \in DOMAIN invalidateTimelines(userID)
                              THEN lastSet[u] ELSE << >>])
            /\ ret' = RetErr("Delete", userID, None, id, Nil, <<>>)
            /\ acked' = acked \cup AskOf([Idle EXCEPT !.op = "Delete", !.tweet = id])
    /\ Others
    /\ HeapKeeps(heap.objects)
    /\ UNCHANGED <<users, userCount, tweetCount>>
    /\ memFrame

(* TweetUseCase.GetTimeline over TweetRepository.GetTimeline *)

\* a step of GetTimeline that changes nothing but the request
readFrame ==
    /\ HeapKeeps(heap.objects)
    /\ UNCHANGED <<users, tweets, userTweets, userTimeline, userCount, tweetCount,
                   acked, lastSet>>
    /\ memFrame

\* TweetUseCase.GetTimeline: userRepository.FindByID
MemStartGetTimeline(p, userID) ==
    /\ FreeSlot(p)
    /\ LET q == Asked("GetTimeline", userID, None) IN
       IF MemFindUser(userID) = NilPtr
       THEN Returns(p, Failed(q, ErrUserNotFound))
       ELSE Goes(p, [q EXCEPT !.pc = "cache"])
    /\ readFrame

\* under the read lock, a cached timeline is returned; with none the read
\* lock is released and the call goes on
MemStepCheckCache(p) ==
    /\ At(p, "GetTimeline", "cache")
    /\ MutexCanLock(WriteLocked)
    /\ LET q == procs[p] IN
       IF q.user \in DOMAIN userTimeline
       THEN Returns(p, Returned(q, Nil, userTimeline[q.user], "hit"))
       ELSE Goes(p, [q EXCEPT !.pc = "user"])
    /\ readFrame

\* r.userRepo.FindByID: the stored object, or nil and ErrUserNotFound
MemStepFindUser(p) ==
    /\ At(p, "GetTimeline", "user")
    /\ LET q == procs[p] IN
       IF MemFindUser(q.user) = NilPtr
       THEN Returns(p, Failed(q, ErrUserNotFound))
       ELSE Goes(p, [q EXCEPT !.pc = "following", !.ptr = q.user])
    /\ readFrame

\* user.GetFollowing(): the keys of the object's map, read under no lock
MemStepGetFollowing(p) ==
    /\ At(p, "GetTimeline", "following")
    /\ LET q == procs[p] IN
       Goes(p, [q EXCEPT !.pc = "lock", !.ptr = None,
                         !.following = GetFollowing(Object(q.ptr))])
    /\ readFrame

\* the critical section that builds the timeline: r.mutex.Lock(), the tweets
\* of followingIDs are collected and sorted, the timeline is put in
\* r.userTimeline and returned
MemStepBuild(p) ==
    /\ At(p, "GetTimeline", "lock")
    /\ MutexCanLock(WriteLocked)
    /\ LET q == procs[p] IN
       \E timeline \in MemBuildTimeline([ID |-> q.user, Following |-> q.following]) :
            /\ userTimeline' = [u \in DOMAIN userTimeline \cup {q.user} |->
                                  IF u = q.user THEN timeline ELSE userTimeline[u]]
            /\ AuthorsAfter([lastSet EXCEPT ![q.user] =
                                <<[authors |-> q.following \cup {q.user}]>>])
            /\ Returns(p, Returned(q, Nil, timeline, "stores"))
    /\ HeapKeeps(heap.objects)
    /\ UNCHANGED <<users, tweets, userTweets, userCount, tweetCount, acked>>
    /\ memFrame

(* UserUseCase.FollowUser and UnfollowUser with uc.timelineCache == nil *)

\* a step that changes nothing but the request
graphFrame ==
    /\ HeapKeeps(heap.objects)
    /\ UNCHANGED <<users, tweets, userTweets, userTimeline, userCount, tweetCount,
                   lastSet>>
    /\ memFrame

\* userRepository.FindByID(followerID): the stored object
MemStartFollowUser(p, followerID, followedID) ==
    /\ FreeSlot(p)
    /\ LET q == Asked("FollowUser", followerID, followedID) IN
       IF MemFindUser(followerID) = NilPtr
       THEN Returns(p, Failed(q, ErrUserNotFound)) /\ UNCHANGED acked
       ELSE /\ Goes(p, [q EXCEPT !.pc = "findFollowed", !.ptr = followerID])
            /\ acked' = acked \cup AskOf(q)
    /\ graphFrame

\* userRepository.FindByID(followedID)
MemStepFindFollowed(p) ==
    /\ At(p, "FollowUser", "findFollowed")
    /\ LET q == procs[p] IN
       IF MemFindUser(q.other) = NilPtr
       THEN Returns(p, Failed(q, ErrUserNotFound))
       ELSE Goes(p, [q EXCEPT !.pc = "follow"])
    /\ UNCHANGED acked
    /\ graphFrame

\* follower.Follow(followedID): the object the repository holds is changed,
\* under no lock
MemStepFollow(p) ==
    /\ At(p, "FollowUser", "follow")
    /\ LET q == procs[p]
           f == Follow(Object(q.ptr), q.other)
       IN IF f.err # Nil
          THEN /\ Returns(p, Failed(q, f.err))
               /\ UNCHANGED users
               /\ HeapKeeps(heap.objects)
          ELSE /\ Goes(p, [q EXCEPT !.pc = "update"])
               /\ ObjectBecomes(q.ptr, f.user)
    /\ UNCHANGED <<tweets, userTweets, userTimeline, userCount, tweetCount, acked,
                   lastSet>>
    /\ memFrame

\* userRepository.FindByID(followerID), the stored object
MemStartUnfollowUser(p, followerID, followedID) ==
    /\ FreeSlot(p)
    /\ LET q == Asked("UnfollowUser", followerID, followedID) IN
       IF MemFindUser(followerID) = NilPtr
       THEN Returns(p, Failed(q, ErrUserNotFound)) /\ UNCHANGED acked
       ELSE /\ Goes(p, [q EXCEPT !.pc = "unfollow", !.ptr = followerID])
            /\ acked' = acked \cup AskOf(q)
    /\ graphFrame

\* follower.Unfollow(followedID): the object the repository holds is
\* changed, under no lock
MemStepUnfollow(p) ==
    /\ At(p, "UnfollowUser", "unfollow")
    /\ LET q == procs[p] IN
        /\ Goes(p, [q EXCEPT !.pc = "update"])
        /\ ObjectBecomes(q.ptr, Unfollow(Object(q.ptr), q.other))
    /\ UNCHANGED <<tweets, userTweets, userTimeline, userCount, tweetCount, acked,
                   lastSet>>
    /\ memFrame

\* userRepository.Update, its critical section: ErrUserNotFound when the id is
\* not stored, else r.users[user.ID] = user, the pointer it already holds;
\* with no timeline cache the request returns
MemStepUpdate(p) ==
    /\ p \in DOMAIN procs
    /\ procs[p].op \in {"FollowUser", "UnfollowUser"} /\ procs[p].pc = "update"
    /\ LET q == procs[p] IN
       IF q.user \notin DOMAIN users
       THEN /\ Returns(p, Failed(q, ErrStore(IF q.op = "FollowUser"
                                              THEN "failed to update follower after follow"
                                              ELSE "failed to update follower after unfollow")))
            /\ UNCHANGED <<users, acked>>
       ELSE /\ users' = MemPutUser(users, Object(q.ptr))
            /\ Done(p, q)
    /\ HeapKeeps(heap.objects)
    /\ UNCHANGED <<tweets, userTweets, userTimeline, userCount, tweetCount, lastSet>>
    /\ memFrame

\* the steps of the requests in the slots S, with at most N tweets ever
\* posted, at instants 1..T
MemRequests(S, N, T) ==
    \/ MemCreateUser
    \/ \E p \in S, u \in UserIDs, c \in PostedContents, at \in 1..T :
            /\ TweetsBegun < N
            /\ MemStartCreateTweet(p, u, c, at)
    \/ \E p \in S : MemStepSave(p)
    \/ \E id \in 1..N : MemDeleteTweet(id)
    \/ \E p \in S, u \in UserIDs : MemStartGetTimeline(p, u)
    \/ \E p \in S : MemStepCheckCache(p)
    \/ \E p \in S : MemStepFindUser(p)
    \/ \E p \in S : MemStepGetFollowing(p)
    \/ \E p \in S : MemStepBuild(p)
    \/ \E p \in S, u \in UserIDs, v \in UserIDs : MemStartFollowUser(p, u, v)
    \/ \E p \in S : MemStepFindFollowed(p)
    \/ \E p \in S : MemStepFollow(p)
    \/ \E p \in S, u \in UserIDs, v \in UserIDs : MemStartUnfollowUser(p, u, v)
    \/ \E p \in S : MemStepUnfollow(p)
    \/ \E p \in S : MemStepUpdate(p)

MemNext == MemRequests(1..MaxInFlight, MaxTweets, MaxTime)

SpecMem == MemInit /\ [][MemNext]_vars

----------------------------------------------------------------------------
(* Histories of both deployments in which the requests are followed one by
   one: main runs in local mode, or in lambda mode with Redis or without a
   cache; DynamoDB and Redis answer every call.  At most MaxInFlight requests
   are between two of their calls at any moment; the requests served in one
   call, and the clock, take their steps at any moment. *)

SeqInit == MemInit \/ DdbInit \/ DdbInitWith("nil")

SeqNext ==
    \/ mode = "local" /\ MemNext
    \/ mode = "lambda" /\ DdbNoCacheNext
    \/ timelineCache = "redis" /\ DdbCacheSteps(1..MaxInFlight, {TRUE})

SpecSeq == SeqInit /\ [][SeqNext]_vars

\* the tweets the tweet store s holds, as entities
StoredTweetsIn(s) ==
    IF mode = "local" THEN {s.tweets[id] : id \in DOMAIN s.tweets}
    ELSE {[ID |-> s.tweetsTable[id].ID, UserID |-> s.tweetsTable[id].UserID,
           Content |-> s.tweetsTable[id].Content,
           CreatedAt |-> s.tweetsTable[id].CreatedAt[2]] : id \in DOMAIN s.tweetsTable}

StoredTweets == StoredTweetsIn(Stores)

\* the ids of the users the user store s holds
StoredUserIDsIn(s) == IF mode = "local" THEN DOMAIN s.users ELSE DOMAIN s.usersTable

StoredUserIDs == StoredUserIDsIn(Stores)

\* the Following set the user store s holds for an existing user
StoredFollowingIn(s, userID) ==
    IF mode = "local" THEN s.users[userID].Following
    ELSE IF s.usersTable[userID].Following = << >> THEN {}
    ELSE s.usersTable[userID].Following[1]

StoredFollowing(userID) == StoredFollowingIn(Stores, userID)

\* the stored tweets of the viewer and of the users the viewer follows
FetchSetTweets(viewer) ==
    {t \in StoredTweets : t.UserID \in {viewer} \cup StoredFollowing(viewer)}

\* the ids of the tweets of a timeline
TweetIDsOf(timeline) == {timeline[i].ID : i \in 1..Len(timeline)}

\* C1: a GetTimeline(V) computed from the stores, no other request or call
\* having taken a step while it ran, returns exactly the tweets stored for V
\* and for every user V follows: each of them once, no tweet of another
\* author, from the newest CreatedAt to the oldest.
C1_AssembledTimelineIsFetchSetNewestFirst ==
    (ret.op = "GetTimeline" /\ ret.err = Nil /\ ret.source = "stores" /\ ret.alone) =>
        /\ \A t \in FetchSetTweets(ret.user) : Count(ret.timeline, t) = 1
        /\ \A i \in 1..Len(ret.timeline) : ret.timeline[i] \in FetchSetTweets(ret.user)
        /\ \A i \in 1..Len(ret.timeline), j \in 1..Len(ret.timeline) :
                i < j => ret.timeline[i].CreatedAt >= ret.timeline[j].CreatedAt

\* a viewer who follows another user was handed, from the DynamoDB tables, a
\* timeline of two tweets that the sort had to reorder: the followed user's
\* tweet, fetched after the viewer's own, is the newer one and comes first
C1_Witness ==
    /\ mode = "lambda"
    /\ ret.op = "GetTimeline" /\ ret.err = Nil /\ ret.source = "stores" /\ ret.alone
    /\ StoredFollowing(ret.user) # {}
    /\ Len(ret.timeline) = 2
    /\ ret.timeline[1].UserID # ret.user
    /\ ret.timeline[2].UserID = ret.user
    /\ ret.timeline[1].CreatedAt > ret.timeline[2].CreatedAt

\* C2: own writes are visible where the requests run one after the other.
\* When U's timeline was cached and a Save of a tweet by U (a Delete of a
\* tweet by U) then returned success, the GetTimeline(U) that comes next
\* contains the new tweet (no longer contains the deleted tweet): in local
\* mode, and in lambda mode with Redis answering.
C2_OwnWriteVisibleToNextRead ==
    (/\ ret.op = "GetTimeline" /\ ret.err = Nil /\ ret.alone
     /\ ret.prev # << >>
     /\ ret.prev[1].op \in {"CreateTweet", "Delete"}
     /\ ret.prev[1].alone
     /\ ret.prev[1].user = ret.user
     /\ ret.prev[1].hadEntry) =>
        /\ ret.prev[1].op = "CreateTweet" => ret.prev[1].tweet \in TweetIDsOf(ret.timeline)
        /\ ret.prev[1].op = "Delete" => ret.prev[1].tweet \notin TweetIDsOf(ret.timeline)

\* U's timeline was in Redis when U's tweet was saved, and the GetTimeline(U)
\* that followed the Save returned a timeline with the new tweet in it
C2_Witness ==
    /\ mode = "lambda" /\ timelineCache = "redis"
    /\ ret.op = "GetTimeline" /\ ret.err = Nil /\ ret.alone
    /\ ret.prev # << >>
    /\ ret.prev[1].op = "CreateTweet"
    /\ ret.prev[1].alone
    /\ ret.prev[1].user = ret.user
    /\ ret.prev[1].hadEntry
    /\ ret.prev[1].tweet \in TweetIDsOf(ret.timeline)

\* C4: in local mode (in-memory repositories, no TimelineCache handed to the
\* user use case), the GetTimeline(U) that comes next after a successful
\* FollowUser(U, V) contains V's tweets, and the one that comes next after a
\* successful UnfollowUser(U, V) contains none of V's tweets, whether or not
\* U's timeline had been read, and so cached, before.
C4_FollowVisibleToNextRead ==
    (/\ mode = "local"
     /\ ret.op = "GetTimeline" /\ ret.err = Nil /\ ret.alone
     /\ ret.prev # << >>
     /\ ret.prev[1].op \in {"FollowUser", "UnfollowUser"}
     /\ ret.prev[1].alone
     /\ ret.prev[1].user = ret.user
     /\ ret.prev[1].other # ret.user) =>
        /\ ret.prev[1].op = "FollowUser" =>
                \A t \in StoredTweets :
                    t.UserID = ret.prev[1].other => Count(ret.timeline, t) = 1
        /\ ret.prev[1].op = "UnfollowUser" =>
                \A i \in 1..Len(ret.timeline) :
                    ret.timeline[i].UserID # ret.prev[1].other

\* C5: with a TimelineCache, a FollowUser(U, V) or UnfollowUser(U, V) that
\* returns success has called InvalidateTimeline(U), once, after the user store
\* update and before returning, so that the GetTimeline(U) that comes next is
\* computed from U's new Following set: it holds the stored tweets of U and
\* of the users U now follows, and no others.  A FollowUser or UnfollowUser that
\* fails has called no invalidation.
C5_FollowInvalidatesSoNextReadIsFresh ==
    /\ (/\ timelineCache = "redis"
        /\ ret.op \in {"FollowUser", "UnfollowUser"}
        /\ ret.err = Nil) =>
            /\ Len(ret.calls) = 1
            /\ ret.calls[1].call = "InvalidateTimeline"
            /\ ret.calls[1].user = ret.user
    /\ (ret.op \in {"FollowUser", "UnfollowUser"} /\ ret.err # Nil) =>
            ret.calls = << >>
    /\ (/\ timelineCache = "redis"
        /\ ret.op = "GetTimeline" /\ ret.err = Nil /\ ret.alone
        /\ ret.prev # << >>
        /\ ret.prev[1].op \in {"FollowUser", "UnfollowUser"}
        /\ ret.prev[1].alone
        /\ ret.prev[1].user = ret.user) =>
            Range(ret.timeline) = FetchSetTweets(ret.user)

----------------------------------------------------------------------------
(* The Redis timeline cache on its own: any caller sets, gets and invalidates
   timelines, Redis answers a command or fails it, and the minutes pass one by
   one.  SetTimeline and InvalidateTimeline are one command each; GetTimeline
   is a GET, followed by a DEL when the value does not decode. *)

\* the timelines the callers hand to SetTimeline
CacheTimelines ==
    {<< >>,
     <<NewTweet(1, "A", Text(1), 1).tweet[1]>>,
     <<NewTweet(2, "B", Text(1), 2).tweet[1], NewTweet(1, "A", Text(1), 1).tweet[1]>>}

CacheInit == DdbInit

cacheFrame ==
    UNCHANGED <<memVars, usersTable, tweetsTable, mode, timelineCache, userCount,
                tweetCount, acked, heap, held>>

\* RedisTimelineCache.SetTimeline
CacheSetTimeline(userID, timeline, up) ==
    LET set == SetTimeline(redis, now, userID, timeline, up) IN
    /\ redis' = set.redis
    /\ lastSet' = IF set.err = Nil
                  THEN [lastSet EXCEPT ![userID] = <<[timeline |-> timeline, at |-> now]>>]
                  ELSE lastSet
    /\ ret' = Ret("cache.SetTimeline", userID, None, NoTweet, set.err, timeline,
                  "none", <<>>)
    /\ Others
    /\ UNCHANGED now
    /\ cacheFrame

\* RedisTimelineCache.GetTimeline, its GET: the call returns, unless the
\* value does not decode; source "hit" stands for found = true
CacheGetTimeline(p, userID, up) ==
    /\ FreeSlot(p)
    /\ LET get == GetTimeline(redis, now, userID, up)
           q == Asked("cache.GetTimeline", userID, None)
       IN /\ redis' = get.redis
          /\ IF get.del
             THEN Goes(p, [q EXCEPT !.pc = "heal", !.cacheErr = get.err])
             ELSE Returns(p, Returned(q, get.err, get.timeline,
                                      IF get.found THEN "hit" ELSE "none"))
    /\ UNCHANGED <<now, lastSet>>
    /\ cacheFrame

\* RedisTimelineCache.GetTimeline on a value that did not decode: the DEL of
\* InvalidateTimeline, whose error is dropped, and the return of the decoding
\* error
CacheHealTimeline(p, up) ==
    /\ At(p, "cache.GetTimeline", "heal")
    /\ LET q == procs[p]
           inv == InvalidateTimeline(redis, q.user, up)
       IN /\ redis' = inv.redis
          /\ lastSet' = IF inv.err = Nil THEN [lastSet EXCEPT ![q.user] = << >>]
                        ELSE lastSet
          /\ Returns(p, Failed([q EXCEPT !.dropped = inv.err], q.cacheErr))
    /\ UNCHANGED now
    /\ cacheFrame

\* RedisTimelineCache.InvalidateTimeline
CacheInvalidateTimeline(userID, up) ==
    LET inv == InvalidateTimeline(redis, userID, up) IN
    /\ redis' = inv.redis
    /\ lastSet' = IF inv.err = Nil THEN [lastSet EXCEPT ![userID] = << >>] ELSE lastSet
    /\ ret' = Ret("cache.InvalidateTimeline", userID, None, NoTweet, inv.err, <<>>,
                  "none", <<>>)
    /\ Others
    /\ UNCHANGED now
    /\ cacheFrame

\* Redis holds timelines only, so no GetTimeline has a value to delete
CacheNext ==
    \/ \E u \in UserIDs, t \in CacheTimelines, up \in BOOLEAN : CacheSetTimeline(u, t, up)
    \/ \E p \in 1..MaxInFlight, u \in UserIDs, up \in BOOLEAN : CacheGetTimeline(p, u, up)
    \/ \E u \in UserIDs, up \in BOOLEAN : CacheInvalidateTimeline(u, up)
    \/ TimePasses(1)

SpecCache == CacheInit /\ [][CacheNext]_vars

\* C6: once a SetTimeline(V, T) has succeeded, every GetTimeline(V) that Redis
\* answers returns (T, true, nil) until the time to live of that Set elapses
\* or an InvalidateTimeline(V) succeeds; from then on it returns (nil,
\* false, nil) until the next SetTimeline(V) that succeeds.  Redis holds a
\* whole encoded timeline under the key or nothing: a GetTimeline never fails
\* to decode what it reads.
C6_CacheEntryLifecycle ==
    /\ \A key \in DOMAIN redis : UnmarshalTimeline(redis[key].val).err = Nil
    /\ ret.op = "cache.GetTimeline" =>
        /\ ret.err \in {Nil, ErrRedis}
        /\ ret.err = Nil =>
            IF /\ lastSet[ret.user] # << >>
               /\ now < lastSet[ret.user][1].at + defaultTimelineTTL
            THEN ret.source = "hit" /\ ret.timeline = lastSet[ret.user][1].timeline
            ELSE ret.source = "none" /\ ret.timeline = << >>

\* a timeline of two tweets was set for V, its time to live has elapsed
\* without an invalidation, and the GetTimeline(V) that followed was a miss
C6_Witness ==
    /\ ret.op = "cache.GetTimeline" /\ ret.err = Nil /\ ret.source = "none"
    /\ lastSet[ret.user] # << >>
    /\ Len(lastSet[ret.user][1].timeline) = 2
    /\ now = lastSet[ret.user][1].at + defaultTimelineTTL

\* the request in slot p returns in this step
ReturnsNow(p) == procs[p] # Idle /\ procs'[p] = Idle

\* the members of the fetch list of the GetTimeline in slot p whose query
\* failed
FailedFetches(p) == {id \in DOMAIN procs[p].tasks : procs[p].tasks[id].pc = "failed"}

\* C7: when, in a GetTimeline(V) that assembles from the stores, the tweet
\* query of a member of the fetch list (V or a user V follows) fails, the
\* fetch group keeps the first such error, and GetTimeline, once the group is
\* joined, returns that error and no timeline, and it makes no SetTimeline
\* call: Redis is left as it was.
C7_FailFastFanOut ==
    [][\A p \in DOMAIN procs :
        /\ (At(p, "GetTimeline", "fetch") /\ FailedFetches(p) # {}) =>
                procs[p].firstErr \in {ErrFetch(id) : id \in FailedFetches(p)}
        /\ (AllTasksFinished(p) /\ FailedFetches(p) # {} /\ ReturnsNow(p)) =>
                /\ ret'.op = "GetTimeline" /\ ret'.user = procs[p].user
                /\ ret'.err = procs[p].firstErr
                /\ ret'.timeline = << >>
                /\ \A i \in 1..Len(ret'.calls) : ret'.calls[i].call # "SetTimeline"
                /\ redis' = redis]_vars

\* the viewer has a stored tweet and follows another user whose query failed:
\* GetTimeline returned the error naming the followed user, while the timeline
\* cached for the viewer before is still in Redis
C7_Witness ==
    /\ ret.op = "GetTimeline"
    /\ ret.err \in {ErrFetch(u) : u \in UserIDs \ {ret.user}}
    /\ ret.timeline = << >>
    /\ \E t \in StoredTweets : t.UserID = ret.user
    /\ ret.err.about \in StoredFollowing(ret.user)
    /\ Cached(ret.user)

\* C8: a failure of the cache never fails a read.  When the cache's
\* GetTimeline returned an error, DynamoDBTweetRepository.GetTimeline went on
\* to the stores and its error, if any, is a store's; when SetTimeline
\* returned an error, the assembled timeline is returned with a nil error.
\* Either way a timeline returned is one the same call returns with no cache:
\* the stored tweets of the fetch set, once each, newest first (nothing else
\* having taken a step while the request ran).
C8_CacheFailureNeverFailsRead ==
    (/\ ret.op = "GetTimeline"
     /\ \E i \in 1..Len(ret.calls) : ~ret.calls[i].ok) =>
        /\ ret.err # ErrRedis
        /\ ret.source # "hit"
        /\ (\E i \in 1..Len(ret.calls) :
                ret.calls[i].call = "SetTimeline" /\ ~ret.calls[i].ok) => ret.err = Nil
        /\ ret.err = Nil =>
            /\ ret.source = "stores"
            /\ ret.alone =>
                /\ \A t \in FetchSetTweets(ret.user) : Count(ret.timeline, t) = 1
                /\ Len(ret.timeline) = Cardinality(FetchSetTweets(ret.user))
                /\ NewestFirst(ret.timeline)

\* Redis failed both the GET and the SET of one GetTimeline, which returned
\* the stored tweet all the same
C8_Witness ==
    /\ ret.op = "GetTimeline" /\ ret.err = Nil /\ ret.alone
    /\ Len(ret.calls) = 2
    /\ ret.calls[1].call = "GetTimeline" /\ ~ret.calls[1].ok
    /\ ret.calls[2].call = "SetTimeline" /\ ~ret.calls[2].ok
    /\ Len(ret.timeline) = 1

\* C9: every acknowledged write has invalidated.  When Save, Delete,
\* FollowUser or UnfollowUser returns success with the Redis cache, the cache
\* entry of the affected user (the tweet's author, the follower) was removed
\* after the store write and before the return: the user has no entry in the
\* cache at the moment the write is acknowledged.
C9_AcknowledgedWriteHasInvalidated ==
    (/\ timelineCache = "redis"
     /\ ret.op \in Writes
     /\ ret.err = Nil) => ~Cached(ret.user)

----------------------------------------------------------------------------
(* Lambda mode with Redis, two requests in flight: the instances of the
   function take their calls on DynamoDB and Redis in any order.  DynamoDB and
   Redis answer every call; acked keeps the tweets whose Save has returned and
   those somebody has asked to delete. *)

ConcInit == InitWith("lambda", "redis", {"tweets"})

ConcNext == DdbRequests(1..MaxProcs, {TRUE}, SmallMaxTweets, SmallMaxTime)

SpecConc == ConcInit /\ [][ConcNext]_vars

\* C3: in the DynamoDB variant under concurrency, every GetTimeline(U) that
\* starts after the Save of a tweet by U has returned (PutItem and
\* InvalidateTimeline(U) both done) returns a timeline containing that tweet,
\* as long as nobody has asked to delete it: a GetTimeline(U) that missed the
\* cache and was in flight during the Save must not leave its pre-write
\* timeline in the cache to be served as a hit.
C3_ReadAfterSaveSeesTweet ==
    (ret.op = "GetTimeline" /\ ret.err = Nil) =>
        \A id \in ret.mustSee \cap AckedTweets :
            \E i \in 1..Len(ret.timeline) : ret.timeline[i].ID = id

\* C10: at every moment a cache entry for viewer V is stored, its value is a
\* timeline a fresh assembly for V yields from the tweet store and the social
\* graph as they are at that moment: the stored tweets of V and of the users V
\* follows, once each, newest first, whatever Save, Delete, FollowUser and
\* UnfollowUser requests run at the same time.
C10_StoredEntryIsFreshAssembly ==
    [][\A userID \in UserIDs :
        (/\ generateKey(userID) \in DOMAIN redis'
         /\ \/ generateKey(userID) \notin DOMAIN redis
            \/ redis'[generateKey(userID)] # redis[generateKey(userID)]) =>
            LET stored == UnmarshalTimeline(redis'[generateKey(userID)].val).timeline IN
            /\ \A t \in FetchSetTweets(userID)' : Count(stored, t) = 1
            /\ Len(stored) = Cardinality(FetchSetTweets(userID)')
            /\ NewestFirst(stored)]_vars

----------------------------------------------------------------------------
(* Histories in which users also leave the user store:
   UserRepository.Delete, which no use case calls, is called on the
   repository, between any two steps of a request.  What the tweet store and
   the caches hold for a deleted user stays where it is. *)

\* DynamoDBUserRepository.Delete: a DeleteItem with no condition, which
\* succeeds whether or not the item exists
DdbDeleteUser(id, delUp) ==
    /\ IF delUp
       THEN /\ usersTable' = [u \in DOMAIN usersTable \ {id} |-> usersTable[u]]
            /\ ret' = RetErr("DeleteUser", id, None, NoTweet, Nil, <<>>)
       ELSE /\ ret' = RetErr("DeleteUser", id, None, NoTweet,
                             ErrStore("failed to delete user from DynamoDB"), <<>>)
            /\ UNCHANGED usersTable
    /\ Others
    /\ UNCHANGED <<tweetsTable, redis, now, userCount, tweetCount, acked>>
    /\ lambdaFrame

DelInit ==
    \/ InitWith("local", "nil", {"stores"})
    \/ InitWith("lambda", "redis", {"stores"})

DelNext ==
    \/ mode = "local" /\ MemRequests(1..MaxInFlight, SmallMaxTweets, SmallMaxTime)
    \/ mode = "local" /\ \E u \in UserIDs : MemDeleteUser(u)
    \/ mode = "lambda" /\ DdbRequests(1..MaxInFlight, {TRUE}, SmallMaxTweets, SmallMaxTime)
    \/ mode = "lambda" /\ \E u \in UserIDs : DdbDeleteUser(u, TRUE)
    \/ mode = "lambda" /\ TimePasses(defaultTimelineTTL)

SpecDel == DelInit /\ [][DelNext]_vars

\* C11: a GetTimeline, through the use case, for a user id the user store does
\* not hold when it is asked returns ErrUserNotFound and no timeline,
\* whatever userTimeline or Redis hold for that id, and it leaves both as they
\* were: it makes no call on the timeline cache and stores no entry.
C11_MissingViewerIsAnError ==
    (/\ ret.op = "GetTimeline"
     /\ ret.alone
     /\ ret.user \notin StoredUserIDsIn(ret.from)) =>
        /\ ret.err = ErrUserNotFound
        /\ ret.timeline = << >>
        /\ ret.source = "none"
        /\ ret.calls = << >>
        /\ redis = ret.from.redis
        /\ userTimeline = ret.from.userTimeline

\* a user whose timeline was cached has been deleted from the user store; the
\* GetTimeline for that id returned ErrUserNotFound with the entry still cached
C11_Witness ==
    /\ ret.op = "GetTimeline" /\ ret.err = ErrUserNotFound
    /\ ret.alone
    /\ ret.user \notin StoredUserIDsIn(ret.from)
    /\ userCount = Len(UserSeq)
    /\ Cached(ret.user)
    /\ mode = "lambda"

----------------------------------------------------------------------------
(* The Redis timeline cache over a Redis that already holds, under some
   timeline keys, values that are not the JSON of a tweet list (left by
   another writer of the same keys). *)

\* a value json.Unmarshal cannot decode into a []*entity.Tweet
ForeignEntry == [val |-> <<"text", "not a timeline">>, exp |-> defaultTimelineTTL]

\* Redis holds a foreign value for the users of S
ForeignInit(S, cache, watched) ==
    /\ users = << >>
    /\ tweets = << >>
    /\ userTweets = << >>
    /\ userTimeline = << >>
    /\ usersTable = << >>
    /\ tweetsTable = << >>
    /\ redis = [k \in {generateKey(u) : u \in S} |-> ForeignEntry]
    /\ now = 0
    /\ mode = "lambda"
    /\ timelineCache = cache
    /\ userCount = 0
    /\ tweetCount = 0
    /\ ret = NoRet
    /\ procs = [p \in 1..MaxProcs |-> Idle]
    /\ acked = {<<"watch", kind>> : kind \in watched}
    /\ lastSet = [u \in UserIDs |-> << >>]
    /\ heap = NoHeap
    /\ held = {}

CacheForeignInit == \E S \in SUBSET UserIDs : ForeignInit(S, "redis", {})

CacheForeignNext ==
    \/ CacheNext
    \/ \E p \in 1..MaxInFlight, up \in BOOLEAN : CacheHealTimeline(p, up)

SpecCacheForeign == CacheForeignInit /\ [][CacheForeignNext]_vars

\* the step is one of the request in slot p
StepOf(p) == procs'[p] \notin {procs[p], Disturbed(procs[p])}

\* C12: RedisTimelineCache.GetTimeline tells a failure from a clean miss.  It
\* returns (nil, false, nil) only when Redis answered that the key holds no
\* entry, and whenever Redis answers so; when the GET fails it returns
\* found = false with the error; when the value read does not decode it goes
\* on to delete the entry and returns found = false with the decoding error;
\* it never returns found = true together with an error.
C12_LookupFailureIsNotAMiss ==
    [][/\ (ret'.op = "cache.GetTimeline" /\ \A p \in DOMAIN procs : ~ReturnsNow(p)) =>
            LET key == generateKey(ret'.user)
                entry == key \in RedisLive(redis, now)
                miss == /\ ret'.timeline = << >>
                        /\ ret'.source = "none"
                        /\ ret'.err = Nil
            IN /\ UNCHANGED redis
               /\ miss => ~entry
               /\ ~entry => (miss \/ ret'.err = ErrRedis)
               /\ entry =>
                    \/ ret'.err = ErrRedis
                    \/ /\ UnmarshalTimeline(redis[key].val).err = Nil
                       /\ ret'.source = "hit" /\ ret'.err = Nil
                       /\ ret'.timeline = UnmarshalTimeline(redis[key].val).timeline
               /\ ret'.err # Nil => (ret'.source = "none" /\ ret'.timeline = << >>)
       /\ \A p \in DOMAIN procs :
            LET q == IF procs[p] = Idle THEN procs'[p] ELSE procs[p]
                key == generateKey(q.user)
            IN /\ (procs[p] = Idle /\ At(p, "cache.GetTimeline", "heal")') =>
                    /\ key \in RedisLive(redis, now)
                    /\ UnmarshalTimeline(redis[key].val).err # Nil
                    /\ procs'[p].cacheErr = UnmarshalTimeline(redis[key].val).err
                    /\ UNCHANGED redis
               /\ (At(p, "cache.GetTimeline", "heal") /\ ReturnsNow(p)) =>
                    /\ ret'.op = "cache.GetTimeline" /\ ret'.user = q.user
                    /\ ret'.err = q.cacheErr /\ ret'.err # Nil
                    /\ ret'.source = "none" /\ ret'.timeline = << >>
                    /\ redis' \in {redis, RedisDel(redis, key)}]_vars

\* the entry found under the user's key did not decode: GetTimeline returned
\* found = false with the decoding error, and the entry is gone
C12_Witness ==
    /\ ret.op = "cache.GetTimeline"
    /\ ret.source = "none"
    /\ ret.err = Err("unmarshal", "")
    /\ ret.alone
    /\ generateKey(ret.user) \notin DOMAIN redis
    /\ \E u \in UserIDs : generateKey(u) \in DOMAIN redis

----------------------------------------------------------------------------
\* the entries of the users other than author are in r2 what they are in r1,
\* and the cache's GetTimeline answers the same for them
OthersKeepEntry(r1, r2, t, author) ==
    \A u \in UserIDs \ {author} :
        /\ generateKey(u) \in DOMAIN r2 <=> generateKey(u) \in DOMAIN r1
        /\ generateKey(u) \in DOMAIN r1 => r2[generateKey(u)] = r1[generateKey(u)]
        /\ GetTimeline(r2, t, u, TRUE).found = GetTimeline(r1, t, u, TRUE).found
        /\ GetTimeline(r2, t, u, TRUE).timeline = GetTimeline(r1, t, u, TRUE).timeline

\* C13: in lambda mode with Redis, a Save or a Delete of a tweet authored by B
\* calls the cache for B only and removes at most B's entry: at each of its
\* steps the entry of every other user, a follower of B included, is the same
\* entry after the step, with the same expiry, so the cache's GetTimeline for
\* that user answers after the write what it answered before it.
C13_WriteInvalidatesAuthorOnly ==
    [][/\ ret'.op \in {"CreateTweet", "Delete"} =>
            /\ \A i \in 1..Len(ret'.calls) :
                    /\ ret'.calls[i].call = "InvalidateTimeline"
                    /\ ret'.calls[i].user = ret'.user
            /\ DOMAIN redis' \subseteq DOMAIN redis
            /\ OthersKeepEntry(redis, redis', now, ret'.user)
       /\ \A p \in DOMAIN procs :
            (procs'[p].op \in {"CreateTweet", "Delete"} /\ StepOf(p)) =>
                /\ DOMAIN redis' \subseteq DOMAIN redis
                /\ OthersKeepEntry(redis, redis', now, procs'[p].user)]_vars

\* B's tweet was saved while B and B's follower A both had a cached timeline:
\* B's entry is gone, A's is still there, without the new tweet
C13_Witness ==
    /\ timelineCache = "redis"
    /\ ret.op = "CreateTweet" /\ ret.err = Nil
    /\ ret.hadEntry /\ ret.alone
    /\ ~Cached(ret.user)
    /\ \E a \in StoredUserIDs \ {ret.user} :
        /\ ret.user \in StoredFollowing(a)
        /\ Cached(a)
        /\ LET cached == GetTimeline(redis, now, a, TRUE).timeline IN
            \A i \in 1..Len(cached) : cached[i].ID # ret.tweet

----------------------------------------------------------------------------
\* C14: the time to live is fixed at insertion.  An entry Redis holds for V
\* expires defaultTimelineTTL after the last SetTimeline(V) that succeeded,
\* whatever GetTimeline and InvalidateTimeline calls (for V or anyone else)
\* came in between: a GetTimeline(V) is a hit only before that instant, and
\* one that Redis answers at that instant or later is a miss.
C14_TTLFixedFromInsertion ==
    /\ \A u \in UserIDs :
        generateKey(u) \in DOMAIN redis =>
            /\ lastSet[u] # << >>
            /\ redis[generateKey(u)].exp = lastSet[u][1].at + defaultTimelineTTL
    /\ (ret.op = "cache.GetTimeline" /\ ret.source = "hit") =>
            /\ lastSet[ret.user] # << >>
            /\ now < lastSet[ret.user][1].at + defaultTimelineTTL
    /\ (/\ ret.op = "cache.GetTimeline" /\ ret.err = Nil
        /\ lastSet[ret.user] # << >>
        /\ now >= lastSet[ret.user][1].at + defaultTimelineTTL) =>
            /\ ret.source = "none"
            /\ generateKey(ret.user) \notin RedisLive(redis, now)

\* a GetTimeline(V) in the last minute of the entry's life was a hit, and the
\* entry still expires when it did before the hit
C14_Witness ==
    /\ ret.op = "cache.GetTimeline" /\ ret.source = "hit"
    /\ Len(ret.timeline) > 0
    /\ now = lastSet[ret.user][1].at + defaultTimelineTTL - 1
    /\ redis[generateKey(ret.user)].exp = now + 1
    /\ \E u \in UserIDs \ {ret.user} : generateKey(u) \in DOMAIN redis

----------------------------------------------------------------------------
\* C15: InvalidateTimeline(V) is unconditional and idempotent.  Whenever Redis
\* answers the DEL it returns nil, whether or not V had an entry and whatever
\* the entry held; afterwards V has no entry and the entries of all other
\* users are what they were; a second InvalidateTimeline(V) returns nil again
\* and changes nothing.  When the DEL fails nothing has changed.
C15_InvalidateUnconditionalIdempotent ==
    [][ret'.op = "cache.InvalidateTimeline" =>
        LET key == generateKey(ret'.user)
            again == InvalidateTimeline(redis', ret'.user, TRUE)
        IN /\ \A up \in BOOLEAN :
                CacheInvalidateTimeline(ret'.user, up) => (ret'.err = Nil <=> up)
           /\ ret'.err # Nil => redis' = redis
           /\ ret'.err = Nil =>
                /\ key \notin DOMAIN redis'
                /\ DOMAIN redis' = DOMAIN redis \ {key}
                /\ \A k \in DOMAIN redis' : redis'[k] = redis[k]
                /\ again.err = Nil
                /\ again.redis = redis']_vars

\* InvalidateTimeline(V) returned nil; V has no entry, and the entry of another
\* user is still in Redis
C15_Witness ==
    /\ ret.op = "cache.InvalidateTimeline" /\ ret.err = Nil
    /\ generateKey(ret.user) \notin DOMAIN redis
    /\ \E u \in UserIDs \ {ret.user} :
        /\ generateKey(u) \in DOMAIN redis
        /\ UnmarshalTimeline(redis[generateKey(u)].val).err = Nil
        /\ Len(UnmarshalTimeline(redis[generateKey(u)].val).timeline) = 2

----------------------------------------------------------------------------
\* the position of tweet t in timeline s
IndexOf(s, t) == CHOOSE i \in 1..Len(s) : s[i] = t

\* C16: reads are idempotent.  When a GetTimeline(V) that succeeds comes right
\* after another GetTimeline(V) that succeeded, with no step of anybody else
\* since the first began, both return the same tweets, and any two tweets with
\* equal CreatedAt stand in the same order in both: with the cache, where the
\* second is a hit, and with no cache, where the second is another assembly.
C16_RepeatedReadSameTimeline ==
    (/\ ret.op = "GetTimeline" /\ ret.err = Nil /\ ret.alone
     /\ ret.prev # << >>
     /\ ret.prev[1].op = "GetTimeline" /\ ret.prev[1].alone
     /\ ret.prev[1].user = ret.user) =>
        LET first == ret.prev[1].timeline IN
        /\ Range(ret.timeline) = Range(first)
        /\ Len(ret.timeline) = Len(first)
        /\ \A t1 \in Range(first), t2 \in Range(first) :
                (t1.CreatedAt = t2.CreatedAt
                 /\ IndexOf(first, t1) < IndexOf(first, t2)) =>
                    IndexOf(ret.timeline, t1) < IndexOf(ret.timeline, t2)

----------------------------------------------------------------------------
\* C17 as stated: in the timeline a GetTimeline returns, every tweet has a
\* CreatedAt strictly later than the tweet after it, whatever the tweet store
\* holds, tweets that share a timestamp included.
C17_TimelineStrictlyDescending ==
    (ret.op = "GetTimeline" /\ ret.err = Nil) =>
        \A i \in 1..(Len(ret.timeline) - 1) :
            After(ret.timeline[i].CreatedAt, ret.timeline[i + 1].CreatedAt)

\* C17, amended: in the timeline a GetTimeline returns, assembled or cached, no
\* tweet has a CreatedAt earlier than the tweet after it; tweets that share a
\* timestamp are adjacent, in either order.
C17_TimelineDescendingWithTies ==
    (ret.op = "GetTimeline" /\ ret.err = Nil) =>
        /\ \A i \in 1..(Len(ret.timeline) - 1) :
                ~After(ret.timeline[i + 1].CreatedAt, ret.timeline[i].CreatedAt)
        /\ \A i \in 1..Len(ret.timeline), j \in 1..Len(ret.timeline) :
                (i < j /\ ret.timeline[i].CreatedAt = ret.timeline[j].CreatedAt) =>
                    \A k \in i..j : ret.timeline[k].CreatedAt = ret.timeline[i].CreatedAt

\* the timeline returned holds two tweets of different authors that share a
\* timestamp, one after the other
C17_Witness ==
    /\ ret.op = "GetTimeline" /\ ret.err = Nil
    /\ Len(ret.timeline) = 2
    /\ ret.timeline[1].CreatedAt = ret.timeline[2].CreatedAt
    /\ ret.timeline[1].UserID # ret.timeline[2].UserID
    /\ ret.timeline[1].ID # ret.timeline[2].ID

----------------------------------------------------------------------------
(* The social graph on its own: users are created, follow and unfollow one
   another and are deleted, and GetFollowers and GetFollowing are asked, in
   local mode and in lambda mode, call by call.  DynamoDB and Redis answer
   every call, and a Scan or BatchGetItem sees the last write.  The record of
   a GetFollowers or GetFollowing that returns has a field users: the slice
   returned. *)

\* the user the user store holds under id, as an entity
StoredUser(id) == [ID |-> id, Following |-> StoredFollowing(id)]

\* memory UserRepository.FindFollowers: the stored users that follow userID
MemFindFollowers(userID) ==
    [err |-> Nil,
     users |-> SetToSeq({users[id] : id \in {i \in DOMAIN users :
                                                IsFollowing(users[i], userID)}})]

\* memory UserRepository.FindFollowing: the followed users that are stored
MemFindFollowing(userID) ==
    IF userID \notin DOMAIN users THEN [err |-> ErrUserNotFound, users |-> <<>>]
    ELSE [err |-> Nil,
          users |-> SetToSeq({users[id] : id \in {i \in GetFollowing(users[userID]) :
                                                     i \in DOMAIN users}})]

\* a FindFollowers whose Scan has no filter: every other user
DdbFindFollowersNoFilter(userID) ==
    [err |-> Nil,
     users |-> SetToSeq({fromDynamoDBUser(usersTable[id]) :
                            id \in {i \in DOMAIN usersTable : usersTable[i].ID # userID}})]

\* DynamoDBUserRepository.FindFollowers: a Scan with the filter
\* contains(Following, :userID), the user itself left out
DdbFindFollowers(userID) ==
    [err |-> Nil,
     users |-> SetToSeq({fromDynamoDBUser(usersTable[id]) :
                            id \in {i \in DOMAIN usersTable :
                                        /\ usersTable[i].Following # << >>
                                        /\ userID \in usersTable[i].Following[1]
                                        /\ usersTable[i].ID # userID}})]

\* DynamoDBUserRepository.FindFollowing, its BatchGetItem of the followed
\* ids: the items that exist
DdbBatchGetUsers(ids) ==
    SetToSeq({fromDynamoDBUser(usersTable[id]) : id \in {i \in ids : i \in DOMAIN usersTable}})

\* DynamoDBUserRepository.FindFollowing when nothing is written between its
\* FindByID and its BatchGetItem
DdbFindFollowing(userID) ==
    IF DdbFindUser(userID) = NilPtr THEN [err |-> ErrUserNotFound, users |-> <<>>]
    ELSE LET user == DdbFindUser(userID)[1] IN
         IF user.Following = {} THEN [err |-> Nil, users |-> <<>>]
         ELSE [err |-> Nil, users |-> DdbBatchGetUsers(user.Following)]

\* UserUseCase.GetFollowers: what it returns when nothing else takes a step
\* between its calls
GetFollowers(userID) ==
    IF mode = "local"
    THEN IF MemFindUser(userID) = NilPtr
         THEN [err |-> ErrUserNotFound, users |-> <<>>]
         ELSE MemFindFollowers(userID)
    ELSE IF DdbFindUser(userID) = NilPtr
         THEN [err |-> ErrUserNotFound, users |-> <<>>]
         ELSE DdbFindFollowers(userID)

\* UserUseCase.GetFollowing: what it returns when nothing else takes a step
\* between its calls
UserGetFollowing(userID) ==
    IF mode = "local"
    THEN IF MemFindUser(userID) = NilPtr
         THEN [err |-> ErrUserNotFound, users |-> <<>>]
         ELSE MemFindFollowing(userID)
    ELSE IF DdbFindUser(userID) = NilPtr
         THEN [err |-> ErrUserNotFound, users |-> <<>>]
         ELSE DdbFindFollowing(userID)

\* the request q returns a slice of users
ReturnedUsers(q, err, list) == [users |-> list] @@ Failed(q, err)

\* UserUseCase.GetFollowers and GetFollowing in local mode: FindByID, under
\* the user repository's read lock
MemStartGraphRead(p, op, userID) ==
    /\ FreeSlot(p)
    /\ LET q == Asked(op, userID, None) IN
       IF MemFindUser(userID) = NilPtr
       THEN Returns(p, Failed(q, ErrUserNotFound))
       ELSE Goes(p, [q EXCEPT !.pc = "find"])
    /\ UNCHANGED acked
    /\ graphFrame

MemStartGetFollowers(p, userID) == MemStartGraphRead(p, "GetFollowers", userID)

MemStartGetFollowing(p, userID) == MemStartGraphRead(p, "GetFollowing", userID)

\* UserRepository.FindFollowers, one critical section
MemStepFindFollowers(p) ==
    /\ At(p, "GetFollowers", "find")
    /\ LET q == procs[p] IN
       Returns(p, ReturnedUsers(q, MemFindFollowers(q.user).err,
                                MemFindFollowers(q.user).users))
    /\ UNCHANGED acked
    /\ graphFrame

\* UserRepository.FindFollowing, one critical section
MemStepFindFollowing(p) ==
    /\ At(p, "GetFollowing", "find")
    /\ LET q == procs[p] IN
       Returns(p, ReturnedUsers(q, MemFindFollowing(q.user).err,
                                MemFindFollowing(q.user).users))
    /\ UNCHANGED acked
    /\ graphFrame

\* UserUseCase.GetFollowers and GetFollowing in lambda mode: FindByID, a
\* GetItem
StartGraphRead(p, op, userID, up) ==
    /\ FreeSlot(p)
    /\ LET q == Asked(op, userID, None) IN
       IF ~up
       THEN Returns(p, Failed(q, ErrStore("failed to get user from DynamoDB")))
       ELSE IF DdbFindUser(userID) = NilPtr
       THEN Returns(p, Failed(q, ErrUserNotFound))
       ELSE Goes(p, [q EXCEPT !.pc = "find"])
    /\ UNCHANGED <<usersTable, tweetsTable, redis, now, userCount, tweetCount, acked>>
    /\ lambdaFrame

StartGetFollowers(p, userID, up) == StartGraphRead(p, "GetFollowers", userID, up)

StartGetFollowing(p, userID, up) == StartGraphRead(p, "GetFollowing", userID, up)

\* DynamoDBUserRepository.FindFollowers: the Scan
StepScanFollowers(p, up) ==
    /\ At(p, "GetFollowers", "find")
    /\ LET q == procs[p] IN
       IF ~up
       THEN Returns(p, Failed(q, ErrStore("failed to scan followers page from DynamoDB")))
       ELSE Returns(p, ReturnedUsers(q, Nil, DdbFindFollowers(q.user).users))
    /\ UNCHANGED <<usersTable, tweetsTable, redis, now, userCount, tweetCount, acked>>
    /\ lambdaFrame

\* DynamoDBUserRepository.FindFollowing: its FindByID; a user who follows
\* nobody gets an empty slice without a BatchGetItem
StepFindFollowing(p, up) ==
    /\ At(p, "GetFollowing", "find")
    /\ LET q == procs[p] IN
       IF ~up
       THEN Returns(p, Failed(q, ErrStore("failed to get user for finding following")))
       ELSE IF DdbFindUser(q.user) = NilPtr
       THEN Returns(p, Failed(q, ErrUserNotFound))
       ELSE IF DdbFindUser(q.user)[1].Following = {}
       THEN Returns(p, ReturnedUsers(q, Nil, <<>>))
       ELSE Goes(p, [q EXCEPT !.pc = "batchGet",
                              !.following = DdbFindUser(q.user)[1].Following])
    /\ UNCHANGED <<usersTable, tweetsTable, redis, now, userCount, tweetCount, acked>>
    /\ lambdaFrame

\* DynamoDBUserRepository.FindFollowing: the BatchGetItem of the ids read
StepBatchGet(p, up) ==
    /\ At(p, "GetFollowing", "batchGet")
    /\ LET q == procs[p] IN
       IF ~up
       THEN Returns(p, Failed(q, ErrStore("failed to batch get following users from DynamoDB")))
       ELSE Returns(p, ReturnedUsers(q, Nil, DdbBatchGetUsers(q.following)))
    /\ UNCHANGED <<usersTable, tweetsTable, redis, now, userCount, tweetCount, acked>>
    /\ lambdaFrame

\* the steps of the requests about the graph, local mode
MemGraphSteps(S) ==
    \/ MemCreateUser
    \/ \E u \in UserIDs : MemDeleteUser(u)
    \/ \E p \in S, u \in UserIDs, v \in UserIDs : MemStartFollowUser(p, u, v)
    \/ \E p \in S : MemStepFindFollowed(p)
    \/ \E p \in S : MemStepFollow(p)
    \/ \E p \in S, u \in UserIDs, v \in UserIDs : MemStartUnfollowUser(p, u, v)
    \/ \E p \in S : MemStepUnfollow(p)
    \/ \E p \in S : MemStepUpdate(p)
    \/ \E p \in S, u \in UserIDs : MemStartGetFollowers(p, u)
    \/ \E p \in S : MemStepFindFollowers(p)
    \/ \E p \in S, u \in UserIDs : MemStartGetFollowing(p, u)
    \/ \E p \in S : MemStepFindFollowing(p)

\* the steps of the requests about the graph, lambda mode with Redis
DdbGraphSteps(S, B) ==
    \/ \E up \in B : DdbCreateUser(up)
    \/ \E u \in UserIDs, up \in B : DdbDeleteUser(u, up)
    \/ \E p \in S, u \in UserIDs, v \in UserIDs, up \in B : StartFollowUser(p, u, v, up)
    \/ \E p \in S, up \in B : StepFindFollowed(p, up)
    \/ \E p \in S, u \in UserIDs, v \in UserIDs, up \in B : StartUnfollowUser(p, u, v, up)
    \/ \E p \in S, up \in B : StepUpdate(p, up)
    \/ \E p \in S, up \in B : StepInvalidate(p, up)
    \/ \E p \in S, u \in UserIDs, up \in B : StartGetFollowers(p, u, up)
    \/ \E p \in S, up \in B : StepScanFollowers(p, up)
    \/ \E p \in S, u \in UserIDs, up \in B : StartGetFollowing(p, u, up)
    \/ \E p \in S, up \in B : StepFindFollowing(p, up)
    \/ \E p \in S, up \in B : StepBatchGet(p, up)

GraphInit ==
    \/ InitWith("local", "nil", {"stores"})
    \/ InitWith("lambda", "redis", {"stores"})

GraphNext ==
    \/ mode = "local" /\ MemGraphSteps(1..MaxInFlight)
    \/ mode = "lambda" /\ DdbGraphSteps(1..MaxInFlight, {TRUE})

SpecGraph == GraphInit /\ [][GraphNext]_vars

\* C18: no user follows itself.  User.Follow with the user's own ID returns
\* ErrCannotFollowSelf and leaves Following as it was; FollowUser(U, U) for a
\* stored user U returns ErrCannotFollowSelf (U gone from the store while the
\* request runs: ErrUserNotFound), and no step of it changes the user store
\* or the timeline cache; and whatever requests have been served, no stored
\* user's Following set holds that user's own ID.
C18_NoUserFollowsItself ==
    [][/\ \A id \in StoredUserIDs :
            /\ Follow(StoredUser(id), id).err = ErrCannotFollowSelf
            /\ Follow(StoredUser(id), id).user = StoredUser(id)
       /\ (ret'.op = "FollowUser" /\ ret'.user = ret'.other) =>
            /\ ret'.err \in {ErrCannotFollowSelf, ErrUserNotFound}
            /\ IF \E p \in DOMAIN procs : ReturnsNow(p)
               THEN ret'.alone => ret'.err = ErrCannotFollowSelf
               ELSE ret'.user \notin StoredUserIDs
            /\ ret'.calls = << >>
       /\ \A p \in DOMAIN procs :
            LET q == IF procs[p] = Idle THEN procs'[p] ELSE procs[p] IN
            (StepOf(p) /\ q.op = "FollowUser" /\ q.user = q.other) =>
                /\ users' = users
                /\ usersTable' = usersTable
                /\ redis' = redis
       /\ \A id \in StoredUserIDs' : id \notin StoredFollowing(id)']_vars

\* a user who follows another user asked to follow itself and was refused
C18_Witness ==
    /\ ret.op = "FollowUser" /\ ret.user = ret.other
    /\ ret.err = ErrCannotFollowSelf
    /\ ret.alone
    /\ ret.user \in StoredUserIDs
    /\ StoredFollowing(ret.user) = UserIDs \ {ret.user}

----------------------------------------------------------------------------
\* the user store after FollowUser(u, v) and then UnfollowUser(u, v), both
\* served with nothing in between, for stored users u and v, u # v
FollowThenUnfollow(u, v) ==
    IF mode = "local"
    THEN LET us1 == MemPutUser(users, Follow(users[u], v).user)
         IN MemPutUser(us1, Unfollow(us1[u], v))
    ELSE LET t1 == DdbPutUser(usersTable, Follow(DdbFindUser(u)[1], v).user)
         IN DdbPutUser(t1, Unfollow(fromDynamoDBUser(t1[u]), v))

\* the user store the requests work on
UserStoreIn(s) == IF mode = "local" THEN s.users ELSE s.usersTable

UserStore == UserStoreIn(Stores)

\* FollowUser and UnfollowUser as insertion into and removal from the stored
\* Following set: what a request for users stored when it began has done when
\* it returns, nothing else having taken a step meanwhile
FollowIsInsertUnfollowIsRemove ==
    LET u == ret.user
        v == ret.other
        before == StoredFollowingIn(ret.from, u)
    IN (/\ ret.op \in {"FollowUser", "UnfollowUser"}
        /\ ret.alone
        /\ u \in StoredUserIDsIn(ret.from)
        /\ ret.op = "FollowUser" => (v \in StoredUserIDsIn(ret.from) /\ u # v)) =>
            /\ ret.err = Nil
            /\ StoredUserIDs = StoredUserIDsIn(ret.from)
            /\ IsFollowing(StoredUser(u), v) <=> ret.op = "FollowUser"
            /\ StoredFollowing(u) = IF ret.op = "FollowUser" THEN before \cup {v}
                                    ELSE before \ {v}
            /\ (v \in before <=> ret.op = "FollowUser") => UserStore = UserStoreIn(ret.from)
            /\ \A w \in StoredUserIDs \ {u} :
                    StoredFollowing(w) = StoredFollowingIn(ret.from, w)

\* C19 as stated: after FollowUser(U, V) succeeds the stored U follows V; after
\* UnfollowUser(U, V) it does not; following a user already followed and
\* unfollowing a user not followed change nothing, the latter without an
\* error; FollowUser(U, V) and then UnfollowUser(U, V) leave U with the
\* Following set it had before the two.
C19_FollowUnfollowSetSemantics ==
    /\ FollowIsInsertUnfollowIsRemove
    /\ Quiet =>
        \A u \in StoredUserIDs, v \in StoredUserIDs :
            u # v => FollowThenUnfollow(u, v) = UserStore

\* C19, amended: as stated, except that FollowUser(U, V) and then
\* UnfollowUser(U, V) leave U with its earlier Following set less V: the set
\* it had before when U did not follow V before.
C19_FollowUnfollowRemovesV ==
    /\ FollowIsInsertUnfollowIsRemove
    /\ Quiet =>
        \A u \in StoredUserIDs, v \in StoredUserIDs :
            u # v =>
                LET after == FollowThenUnfollow(u, v) IN
                /\ DOMAIN after = DOMAIN UserStore
                /\ \A w \in DOMAIN after \ {u} : after[w] = UserStore[w]
                /\ IF mode = "local" THEN after[u].Following = StoredFollowing(u) \ {v}
                   ELSE fromDynamoDBUser(after[u]).Following = StoredFollowing(u) \ {v}
                /\ v \notin StoredFollowing(u) => after = UserStore

\* UnfollowUser(U, V) has just succeeded in lambda mode and U, who followed
\* nobody else, is stored with no Following attribute, as before any follow
C19_Witness ==
    /\ mode = "lambda"
    /\ ret.op = "UnfollowUser" /\ ret.err = Nil /\ ret.alone
    /\ ret.other \in StoredFollowingIn(ret.from, ret.user)
    /\ ret.other \in StoredUserIDs \ {ret.user}
    /\ usersTable[ret.user] = toDynamoDBUser(NewUser(ret.user))
    /\ FollowThenUnfollow(ret.user, ret.other) = UserStore
    /\ \E w \in StoredUserIDs : StoredFollowing(w) # {}

----------------------------------------------------------------------------
\* the IDs of the users in a returned slice
IDsOf(list) == {list[i].ID : i \in 1..Len(list)}

----------------------------------------------------------------------------
(* The tweet store seen through the tweet use cases: contents at, within and
   over the limit are posted, tweets are deleted, looked up by id and listed
   by author, in local mode and in lambda mode with DynamoDB and Redis
   answering every call but the GetItem of GetTweetByID, which may fail. *)

\* the contents posted: empty, exactly at the limit, one byte over it, and
\* 141 two-byte characters (282 bytes)
Contents == {Text(0), Text(MaxTweetLength), Text(MaxTweetLength + 1),
             Wide(MaxTweetLength \div 2 + 1)}

\* TweetRepository.FindByID, which never fails; DynamoDBTweetRepository.FindByID:
\* the GetItem fails (~up) and the error is handed back wrapped, or the item
\* it gives is converted
FindByID(id, up) ==
    IF mode = "local"
    THEN [err |-> Nil, tweet |-> IF id \in DOMAIN tweets THEN <<tweets[id]>> ELSE NilPtr]
    ELSE IF ~up
    THEN [err |-> ErrStore("failed to get tweet from DynamoDB"), tweet |-> NilPtr]
    ELSE DdbFindTweet(tweetsTable, id)

\* TweetUseCase.GetTweetByID: the error of FindByID as it is, ErrTweetNotFound
\* for a nil tweet, else the tweet
GetTweetByID(tweetID, up) ==
    LET r == FindByID(tweetID, up) IN
    IF r.err # Nil THEN r
    ELSE IF r.tweet = NilPtr THEN [err |-> ErrTweetNotFound, tweet |-> NilPtr]
    ELSE r

\* memory TweetRepository.FindByUserID: a sorted copy of the author's list,
\* every outcome of the sort
MemFindByUserID(userID) ==
    IF userID \notin DOMAIN userTweets THEN {<<>>}
    ELSE SortSlice(userTweets[userID])

\* DynamoDBTweetRepository.FindByUserID: the query on UserIDIndex, in the
\* order the index returns the items
DdbFindByUserID(userID) == Rearrangements(queryTweetsByUserID(tweetsTable, userID))

\* a GetTweetByID request: one call on the tweet repository, which DynamoDB
\* answers (up) or fails
AskGetTweetByID(tweetID, up) ==
    /\ ret' = [found |-> GetTweetByID(tweetID, up).tweet]
                @@ RetErr("GetTweetByID", None, None, tweetID,
                          GetTweetByID(tweetID, up).err, <<>>)
    /\ Others
    /\ UNCHANGED <<memVars, ddbVars, mode, timelineCache, userCount, tweetCount,
                   acked, lastSet, heap, held>>

\* TweetUseCase.GetTweetsByUser in local mode: userRepository.FindByID
MemStartGetTweetsByUser(p, userID) ==
    /\ FreeSlot(p)
    /\ LET q == Asked("GetTweetsByUser", userID, None) IN
       IF MemFindUser(userID) = NilPtr
       THEN Returns(p, Failed(q, ErrUserNotFound))
       ELSE Goes(p, [q EXCEPT !.pc = "list"])
    /\ readFrame

\* TweetRepository.FindByUserID, under the read lock
MemStepFindByUserID(p) ==
    /\ At(p, "GetTweetsByUser", "list")
    /\ MutexCanLock(WriteLocked)
    /\ \E list \in MemFindByUserID(procs[p].user) :
            Returns(p, Returned(procs[p], Nil, list, "stores"))
    /\ readFrame

\* TweetUseCase.GetTweetsByUser in lambda mode: userRepository.FindByID
StartGetTweetsByUser(p, userID, up) ==
    /\ FreeSlot(p)
    /\ LET q == Asked("GetTweetsByUser", userID, None) IN
       IF ~up
       THEN Returns(p, Failed(q, ErrStore("failed to get user from DynamoDB")))
       ELSE IF DdbFindUser(userID) = NilPtr
       THEN Returns(p, Failed(q, ErrUserNotFound))
       ELSE Goes(p, [q EXCEPT !.pc = "list"])
    /\ UNCHANGED <<usersTable, tweetsTable, redis, now, userCount, tweetCount, acked>>
    /\ lambdaFrame

\* DynamoDBTweetRepository.FindByUserID: the Query
StepQueryByUserID(p, up) ==
    /\ At(p, "GetTweetsByUser", "list")
    /\ IF ~up
       THEN Returns(p, Failed(procs[p], ErrStore("failed to query tweets by user ID")))
       ELSE \E list \in DdbFindByUserID(procs[p].user) :
                Returns(p, Returned(procs[p], Nil, list, "stores"))
    /\ UNCHANGED <<usersTable, tweetsTable, redis, now, userCount, tweetCount, acked>>
    /\ lambdaFrame

TweetsInit == MemInit \/ DdbInit

\* the steps of the tweet requests in local mode
MemTweetSteps(S) ==
    \/ MemCreateUser
    \/ \E p \in S, u \in UserIDs, c \in Contents, at \in 1..SmallMaxTime :
            MemStartCreateTweet(p, u, c, at)
    \/ \E p \in S : MemStepSave(p)
    \/ \E id \in TweetIDs : MemDeleteTweet(id)
    \/ \E p \in S, u \in UserIDs : MemStartGetTimeline(p, u)
    \/ \E p \in S : MemStepCheckCache(p)
    \/ \E p \in S : MemStepFindUser(p)
    \/ \E p \in S : MemStepGetFollowing(p)
    \/ \E p \in S : MemStepBuild(p)
    \/ \E p \in S, u \in UserIDs : MemStartGetTweetsByUser(p, u)
    \/ \E p \in S : MemStepFindByUserID(p)

\* the steps of the tweet requests in lambda mode
DdbTweetSteps(S, B) ==
    \/ \E up \in B : DdbCreateUser(up)
    \/ \E p \in S, u \in UserIDs, c \in Contents, at \in 1..SmallMaxTime, up \in B :
            StartCreateTweet(p, u, c, at, up)
    \/ \E p \in S, up \in B : StepPutItem(p, up)
    \/ \E p \in S, id \in TweetIDs, up \in B : StartDelete(p, id, up)
    \/ \E p \in S, up \in B : StepDeleteItem(p, up)
    \/ \E p \in S, up \in B : StepInvalidate(p, up)
    \/ \E p \in S, u \in UserIDs, up \in B : StartGetTimeline(p, u, up)
    \/ \E p \in S, up \in B : StepCacheGet(p, up)
    \/ \E p \in S, up \in B : StepFindUser(p, up)
    \/ \E p \in S, id \in UserIDs, ok \in B : TaskQuery(p, id, ok)
    \/ \E p \in S, id \in UserIDs : TaskAppend(p, id)
    \/ \E p \in S, up \in B : Join(p, up)
    \/ \E p \in S, u \in UserIDs, up \in B : StartGetTweetsByUser(p, u, up)
    \/ \E p \in S, up \in B : StepQueryByUserID(p, up)

TweetsNext ==
    \/ mode = "local" /\ MemTweetSteps(1..MaxInFlight)
    \/ mode = "lambda" /\ DdbTweetSteps(1..MaxInFlight, {TRUE})
    \/ \E id \in TweetIDs, up \in BOOLEAN : AskGetTweetByID(id, up)

SpecTweets == TweetsInit /\ [][TweetsNext]_vars

\* the timelines held in cache, whichever the cache is
CachedTimelines == <<userTimeline, redis>>

\* the request that returns in this step returns from its first call
ReturnsAtOnce == \A p \in DOMAIN procs : ~ReturnsNow(p)

\* the CreateTweet in slot p takes the step that stores its tweet
StoresTweet(p) ==
    /\ procs[p].op = "CreateTweet"
    /\ procs[p].pc \in {"lock", "putItem"}
    /\ StepOf(p)

\* NewTweet and IsValid on every content posted: the 280-byte rule
LengthRule ==
    \A c \in Contents, id \in TweetIDs, u \in UserIDs, at \in Times :
        LET r == NewTweet(id, u, c, at) IN
        /\ (r.err = ErrTweetTooLong /\ r.tweet = NilPtr) <=> ByteLen(c) > 280
        /\ ByteLen(c) <= 280 =>
                /\ r.err = Nil
                /\ r.tweet = <<[ID |-> id, UserID |-> u, Content |-> c, CreatedAt |-> at]>>
        /\ IsValid([ID |-> id, UserID |-> u, Content |-> c, CreatedAt |-> at])
                <=> ByteLen(c) <= 280

\* C21: NewTweet returns (nil, ErrTweetTooLong) exactly when len(content)
\* exceeds 280 and a tweet otherwise, the empty content and a content of
\* exactly 280 included; IsValid follows the same rule; a CreateTweet of an
\* existing user with a content over the limit returns ErrTweetTooLong, and a
\* CreateTweet that returns it has stored no tweet, has changed no cached
\* timeline and has called no invalidation.
C21_TweetLengthLimit ==
    [][/\ LengthRule
       /\ ret'.op = "CreateTweet" =>
            /\ ret'.err = ErrTweetTooLong <=>
                    (/\ ReturnsAtOnce
                     /\ ret'.user \in StoredUserIDs
                     /\ ByteLen(ret'.content) > 280)
            /\ ret'.err = ErrTweetTooLong =>
                    /\ StoredTweets' = StoredTweets
                    /\ tweets' = tweets /\ userTweets' = userTweets
                    /\ tweetsTable' = tweetsTable
                    /\ CachedTimelines' = CachedTimelines
                    /\ ret'.calls = <<>>
       /\ \A p \in DOMAIN procs :
            StoresTweet(p) => ByteLen(procs[p].content) <= 280]_vars

\* a CreateTweet with a content of 281 bytes has just been rejected while a
\* tweet of 280 bytes is stored and the poster's timeline, which holds it, is
\* cached
C21_Witness ==
    /\ ret.op = "CreateTweet" /\ ret.err = ErrTweetTooLong
    /\ ByteLen(ret.content) = MaxTweetLength + 1
    /\ Cached(ret.user)
    /\ \E t \in StoredTweets : t.UserID = ret.user /\ ByteLen(t.Content) = MaxTweetLength

\* C22: a CreateTweet for a user id the user store does not hold returns
\* ErrUserNotFound, stores no tweet and changes no cached timeline; a
\* CreateTweet for a stored user with a content within the limit goes on to
\* store a tweet under a new id whose UserID and Content are the ones given,
\* and succeeds; FindByID of that id returns this tweet, as does a
\* GetTweetByID that follows, unless its GetItem fails (nothing else having
\* taken a step while the CreateTweet ran: a Delete of the new tweet may come
\* before its return).
C22_CreateTweetUserCheckAndStore ==
    [][/\ (ret'.op = "CreateTweet" /\ ReturnsAtOnce) =>
            /\ ret'.user \notin StoredUserIDs <=> ret'.err = ErrUserNotFound
            /\ ByteLen(ret'.content) <= MaxTweetLength => ret'.err = ErrUserNotFound
            /\ StoredTweets' = StoredTweets
            /\ tweets' = tweets /\ userTweets' = userTweets
            /\ tweetsTable' = tweetsTable
            /\ CachedTimelines' = CachedTimelines
       /\ \A p \in DOMAIN procs :
            StoresTweet(p) =>
                \E id \in TweetIDs :
                    /\ \A t \in StoredTweets : t.ID # id
                    /\ FindByID(id, TRUE)'.err = Nil
                    /\ FindByID(id, TRUE)'.tweet # NilPtr
                    /\ FindByID(id, TRUE)'.tweet[1].ID = id
                    /\ FindByID(id, TRUE)'.tweet[1].UserID = procs[p].user
                    /\ FindByID(id, TRUE)'.tweet[1].Content = procs[p].content
                    /\ StoredTweets' = StoredTweets \cup {FindByID(id, TRUE)'.tweet[1]}
                    /\ IF ReturnsNow(p) THEN ret'.tweet = id ELSE procs'[p].tweet = id
       /\ (ret'.op = "CreateTweet" /\ ~ReturnsAtOnce) =>
            /\ ret'.err = Nil
            /\ ret'.alone =>
                \E id \in TweetIDs :
                    /\ id = ret'.tweet
                    /\ FindByID(id, TRUE)'.tweet # NilPtr
                    /\ FindByID(id, TRUE)'.tweet[1].UserID = ret'.user
                    /\ FindByID(id, TRUE)'.tweet[1].Content = ret'.content
       /\ (ret'.op = "GetTweetByID" /\ ret.op = "CreateTweet" /\ ret.err = Nil
                /\ ret.alone /\ ret'.tweet = ret.tweet
                /\ ret'.err # ErrStore("failed to get tweet from DynamoDB")) =>
            /\ ret'.err = Nil
            /\ ret'.found # NilPtr
            /\ ret'.found[1].ID = ret.tweet
            /\ ret'.found[1].UserID = ret.user
            /\ ret'.found[1].Content = ret.content]_vars

\* a CreateTweet for an unknown user has just been refused in lambda mode,
\* while a tweet of 280 bytes posted earlier is stored and its author's
\* timeline is cached
C22_Witness ==
    /\ mode = "lambda"
    /\ ret.op = "CreateTweet" /\ ret.err = ErrUserNotFound
    /\ ret.user \notin StoredUserIDs
    /\ \E t \in StoredTweets :
        /\ t.Content = Text(MaxTweetLength)
        /\ Cached(t.UserID)
        /\ FindByID(t.ID, TRUE).tweet = <<t>>

\* the stored tweets whose author is userID
StoredTweetsBy(userID) == {t \in StoredTweets : t.UserID = userID}

\* the Delete in slot p takes the step that removes its tweet
RemovesTweet(p) ==
    /\ procs[p].op = "Delete"
    /\ procs[p].pc = "deleteItem"
    /\ StepOf(p)

\* C23: GetTweetsByUser(U) for a stored user returns each stored tweet whose
\* author is U once and nothing else (no step of anybody else taken while it
\* ran), and for an unknown user ErrUserNotFound; the stored tweets are the
\* tweets saved and not deleted: the storing step of a CreateTweet adds its
\* tweet to them, the removing step of a Delete takes its tweet from them,
\* and no other step changes them.
C23_TweetsByUserAreSavedNotDeleted ==
    [][/\ (ret'.op = "GetTweetsByUser" /\ ret'.alone) =>
            \E u \in UserIDs :
                /\ u = ret'.user
                /\ IF u \in StoredUserIDs'
                   THEN /\ ret'.err = Nil
                        /\ Range(ret'.timeline) = StoredTweetsBy(u)'
                        /\ Len(ret'.timeline) = Cardinality(StoredTweetsBy(u)')
                   ELSE ret'.err = ErrUserNotFound
       /\ \A p \in DOMAIN procs :
            StoresTweet(p) =>
                \E t \in StoredTweets' :
                    /\ t.UserID = procs[p].user
                    /\ t \notin StoredTweets
                    /\ StoredTweets' = StoredTweets \cup {t}
       /\ \A p \in DOMAIN procs :
            RemovesTweet(p) =>
                StoredTweets' = {t \in StoredTweets : t.ID # procs[p].tweet}
       /\ (mode = "local" /\ ret'.op = "Delete" /\ ret'.err = Nil) =>
            \E t \in StoredTweets :
                /\ t.ID = ret'.tweet
                /\ StoredTweets' = StoredTweets \ {t}
       /\ (/\ \A p \in DOMAIN procs : ~StoresTweet(p) /\ ~RemovesTweet(p)
           /\ ~(mode = "local" /\ ret'.op = "Delete" /\ ret'.err = Nil)) =>
            StoredTweets' = StoredTweets]_vars

\* GetTweetsByUser(U) has just returned no tweet in local mode: U's only tweet
\* was deleted, and the tweet of another user is stored
C23_Witness ==
    /\ mode = "local"
    /\ ret.op = "GetTweetsByUser" /\ ret.err = Nil /\ ret.timeline = <<>>
    /\ ret.alone
    /\ ret.user \in DOMAIN userTweets
    /\ tweetCount = 2
    /\ \E t \in StoredTweets : t.UserID # ret.user

----------------------------------------------------------------------------
\* the ids of the stored tweets
StoredTweetIDs == {t.ID : t \in StoredTweets}

\* C29: a Delete of an id no stored tweet has returns ErrTweetNotFound and
\* changes nothing: the tweet map and the authors' lists (the tweets table in
\* lambda mode) and every cached timeline are as before the call, and no
\* invalidation is called on the cache.
C29_DeleteOfMissingTweetChangesNothing ==
    [][(ret'.op = "Delete" /\ ReturnsAtOnce /\ ret'.tweet \notin StoredTweetIDs) =>
        /\ ret'.err = ErrTweetNotFound
        /\ tweets' = tweets
        /\ userTweets' = userTweets
        /\ userTimeline' = userTimeline
        /\ tweetsTable' = tweetsTable
        /\ redis' = redis
        /\ ret'.calls = <<>>]_vars

\* a Delete has just been refused in local mode for a tweet deleted before,
\* while another tweet is stored and a timeline is cached
C29_Witness ==
    /\ mode = "local"
    /\ ret.op = "Delete" /\ ret.err = ErrTweetNotFound
    /\ ret.tweet <= tweetCount
    /\ tweets # << >>
    /\ userTimeline # << >>

----------------------------------------------------------------------------
\* C24: DynamoDBTweetRepository.GetTimeline is a cache-aside read.  On a hit
\* it returns from its cache lookup the sequence the live entry decodes to:
\* its only call on the cache is the lookup (no SetTimeline), Redis is left
\* as it was, and neither the users table nor the tweets table is asked.
\* Only when the lookup is no hit does it go on to the stores; when the
\* assembly succeeds it returns the sorted collection of the fetch tasks and
\* calls SetTimeline exactly once, after the lookup, with that same sequence:
\* when Redis answers, the entry holds it with the full time to live.
C24_CacheAsideReadPath ==
    [][\A p \in DOMAIN procs :
        LET q == procs[p]
            u == q.user
            key == generateKey(u)
        IN /\ (At(p, "GetTimeline", "cacheGet") /\ StepOf(p)) =>
                IF ReturnsNow(p)
                THEN /\ ret'.op = "GetTimeline" /\ ret'.user = u
                     /\ ret'.err = Nil /\ ret'.source = "hit"
                     /\ key \in RedisLive(redis, now)
                     /\ ret'.timeline = UnmarshalTimeline(redis[key].val).timeline
                     /\ ret'.calls = <<Call("GetTimeline", u, Nil)>>
                     /\ redis' = redis
                ELSE /\ procs'[p].pc = "findUser"
                     /\ key \notin RedisLive(redis, now)
                            \/ ~procs'[p].calls[1].ok
                     /\ Len(procs'[p].calls) = 1
                     /\ procs'[p].calls[1].call = "GetTimeline"
                     /\ procs'[p].calls[1].user = u
                     /\ redis' = redis
           /\ (q.op = "GetTimeline" /\ ReturnsNow(p) /\ ret'.err = Nil) =>
                /\ ret'.source \in {"hit", "stores"}
                /\ ret'.source = "hit" <=> q.pc = "cacheGet"
                /\ ret'.source = "stores" =>
                    /\ AllTasksFinished(p)
                    /\ ret'.timeline \in SortSlice(q.all)
                    /\ ret'.alone =>
                        ret'.timeline \in SortSlice(DdbCollect(tweetsTable, DdbFindUser(u)[1]))
                    /\ Len(ret'.calls) = 2
                    /\ ret'.calls[1].call = "GetTimeline" /\ ret'.calls[1].user = u
                    /\ ret'.calls[2].call = "SetTimeline" /\ ret'.calls[2].user = u
                    /\ ~ret'.calls[2].ok => redis' = redis
                    /\ ret'.calls[2].ok =>
                        /\ redis'[key] = [val |-> MarshalTimeline(ret'.timeline),
                                          exp |-> now + defaultTimelineTTL]
                        /\ UnmarshalTimeline(redis'[key].val).timeline = ret'.timeline
                        /\ \A k \in DOMAIN redis' \ {key} :
                                k \in DOMAIN redis /\ redis'[k] = redis[k]]_vars

\* a GetTimeline has just been served from the cache with a tweet in it
C24_Witness ==
    /\ timelineCache = "redis"
    /\ ret.op = "GetTimeline" /\ ret.err = Nil /\ ret.source = "hit"
    /\ ret.timeline # <<>>
    /\ ret.calls = <<Call("GetTimeline", ret.user, Nil)>>

----------------------------------------------------------------------------
(* The tweets table is shared with other writers: an item whose CreatedAt is
   not in RFC3339Nano form (written by a script or by another version of the
   service) is an item fromDynamoDBTweet cannot convert. *)

\* the id of the item the other writer puts
LegacyID == 0 - 1

\* another writer's PutItem: an item of a stored user with its instant in
\* another layout
LegacyPutItem(userID, at) ==
    /\ userID \in DOMAIN usersTable
    /\ LegacyID \notin DOMAIN tweetsTable
    /\ tweetsTable' = [id \in DOMAIN tweetsTable \cup {LegacyID} |->
                        IF id = LegacyID
                        THEN [ID |-> LegacyID, UserID |-> userID, Content |-> Text(1),
                              CreatedAt |-> <<"RFC1123", at>>]
                        ELSE tweetsTable[id]]
    /\ ret' = NoRet
    /\ Others
    /\ UNCHANGED <<usersTable, redis, now, userCount, tweetCount, acked>>
    /\ lambdaFrame

LegacyNext ==
    \/ DdbRequests(1..MaxInFlight, {TRUE}, SmallMaxTweets, SmallMaxTime)
    \/ \E u \in UserIDs, at \in 1..SmallMaxTime : LegacyPutItem(u, at)

SpecDdbLegacy == DdbInit /\ [][LegacyNext]_vars

\* C25: a GetTimeline that succeeds by assembling from the stores, no step of
\* anybody else taken while it ran, returns every item the tweets table
\* holds for the viewer and for each user the viewer follows: none is left
\* out, an item that cannot be converted included (the call would have to
\* fail instead).
C25_NoStoredTweetSilentlyMissing ==
    (ret.op = "GetTimeline" /\ ret.err = Nil /\ ret.source = "stores" /\ ret.alone) =>
        \A id \in DOMAIN tweetsTable :
            tweetsTable[id].UserID \in {ret.user} \cup StoredFollowing(ret.user) =>
                \E i \in 1..Len(ret.timeline) : ret.timeline[i].ID = id

----------------------------------------------------------------------------
(* The fetch group of DynamoDBTweetRepository.GetTimeline, task by task and,
   inside the critical section of a task, access by access: the append
   allTweets = append(allTweets, userTweets...) is a read of allTweets
   followed by a write.  A request in procs holds allTweets (all), the holder
   of mu, the first error the group has kept, and for every id of idsToFetch
   its task: where it is, what its query returned, and the slice header it
   read for its append.  Users are created and followed and tweets posted by
   requests of their own; a query may fail. *)

FanOutInit == DdbInit

FanOutSteps(S) ==
    \/ DdbCreateUser(TRUE)
    \/ \E p \in S, u \in UserIDs, c \in PostedContents, at \in 1..SmallMaxTime :
            StartCreateTweet(p, u, c, at, TRUE)
    \/ \E p \in S : StepPutItem(p, TRUE)
    \/ \E p \in S, u \in UserIDs, v \in UserIDs : StartFollowUser(p, u, v, TRUE)
    \/ \E p \in S : StepFindFollowed(p, TRUE)
    \/ \E p \in S : StepUpdate(p, TRUE)
    \/ \E p \in S : StepInvalidate(p, TRUE)
    \/ \E p \in S, u \in UserIDs : StartGetTimeline(p, u, TRUE)
    \/ \E p \in S : StepCacheGet(p, TRUE)
    \/ \E p \in S : StepFindUser(p, TRUE)
    \/ \E p \in S, id \in UserIDs, ok \in BOOLEAN : TaskQuery(p, id, ok)
    \/ \E p \in S, id \in UserIDs : TaskLock(p, id)
    \/ \E p \in S, id \in UserIDs : TaskRead(p, id)
    \/ \E p \in S, id \in UserIDs : TaskWrite(p, id)
    \/ \E p \in S, id \in UserIDs : TaskUnlock(p, id)
    \/ \E p \in S : Join(p, TRUE)

FanOutNext == FanOutSteps(1..MaxInFlight)

SpecFanOut == FanOutInit /\ [][FanOutNext]_vars

\* the tasks of the request in slot p whose append is complete
Appended(p) == {id \in DOMAIN procs[p].tasks : procs[p].tasks[id].pc \in {"unlock", "done"}}

\* the tasks of the request in slot p that have returned nil
TasksDone(p) == {id \in DOMAIN procs[p].tasks : procs[p].tasks[id].pc = "done"}

\* how many times t is among the tweets the tasks in S fetched
RECURSIVE FetchedCount(_, _, _)
FetchedCount(p, S, t) ==
    IF S = {} THEN 0
    ELSE LET id == CHOOSE x \in S : TRUE IN
         Count(procs[p].tasks[id].userTweets, t) + FetchedCount(p, S \ {id}, t)

\* allTweets holds what the tasks in S fetched, each tweet as often as fetched
HoldsExactly(p, S) ==
    /\ \A i \in 1..Len(procs[p].all) :
            Count(procs[p].all, procs[p].all[i]) = FetchedCount(p, S, procs[p].all[i])
    /\ \A id \in S : \A i \in 1..Len(procs[p].tasks[id].userTweets) :
            Count(procs[p].all, procs[p].tasks[id].userTweets[i]) = 1

\* the fetch group of slot p: only the holder of mu is inside its append, and
\* allTweets holds the tweets of the tasks that have appended
GroupInOrder(p) ==
    At(p, "GetTimeline", "fetch") =>
        /\ \A id \in DOMAIN procs[p].tasks :
                procs[p].tasks[id].pc \in {"read", "write", "unlock"} => procs[p].mu = id
        /\ HoldsExactly(p, Appended(p))

\* C26: only the task that holds mu is inside its append; at every moment
\* allTweets holds exactly the tweets of the tasks that have appended, each
\* once, so after the join it holds every tweet of every successful fetch
\* exactly once, whatever the interleaving; GetTimeline returns, sorts and
\* calls SetTimeline only when every task has finished, what it sorts is that
\* collection, and before that it stores no entry for the viewer.
C26_FanOutAppendsUnderMutex ==
    [][\A p \in DOMAIN procs :
        /\ GroupInOrder(p)'
        /\ (At(p, "GetTimeline", "fetch") /\ ReturnsNow(p)) =>
            /\ AllTasksFinished(p)
            /\ HoldsExactly(p, TasksDone(p))
            /\ ret'.err = Nil =>
                    /\ TasksDone(p) = DOMAIN procs[p].tasks
                    /\ ret'.timeline \in SortSlice(procs[p].all)
                    /\ redis' = SetTimeline(redis, now, ret'.user, ret'.timeline,
                                            TRUE).redis
        /\ (At(p, "GetTimeline", "fetch") /\ ~AllTasksFinished(p) /\ StepOf(p)) =>
            /\ ~ReturnsNow(p)
            /\ redis' = redis]_vars

\* a GetTimeline has just returned two tweets of two authors, each fetched by
\* its own task
C26_Witness ==
    /\ ret.op = "GetTimeline" /\ ret.err = Nil /\ ret.source = "stores"
    /\ Len(ret.timeline) = 2
    /\ ret.timeline[1].UserID # ret.timeline[2].UserID

----------------------------------------------------------------------------
(* Local mode with every request of the use cases, reads included, and the
   clock moving. *)

MemAllNext ==
    \/ MemRequests(1..MaxInFlight, SmallMaxTweets, SmallMaxTime)
    \/ \E p \in 1..MaxInFlight, u \in UserIDs : MemStartGetFollowers(p, u)
    \/ \E p \in 1..MaxInFlight : MemStepFindFollowers(p)
    \/ \E p \in 1..MaxInFlight, u \in UserIDs : MemStartGetFollowing(p, u)
    \/ \E p \in 1..MaxInFlight : MemStepFindFollowing(p)
    \/ \E p \in 1..MaxInFlight, u \in UserIDs : MemStartGetTweetsByUser(p, u)
    \/ \E p \in 1..MaxInFlight : MemStepFindByUserID(p)
    \/ \E id \in 1..SmallMaxTweets, up \in {TRUE} : AskGetTweetByID(id, up)
    \/ TimePasses(defaultTimelineTTL)

SpecMemAll == MemInit /\ [][MemAllNext]_vars

\* the step is the critical section of a Save, or a Delete that succeeds
MemWriteStep ==
    \/ \E p \in DOMAIN procs : StoresTweet(p)
    \/ ret'.op = "Delete" /\ ret'.err = Nil

\* C27: in the in-memory repository a Save or a Delete that succeeds leaves no
\* timeline cached, for any viewer; every other step (of FollowUser,
\* UnfollowUser, GetTimeline, the reads, a CreateTweet or Delete that is
\* refused, the passage of time) leaves every cached timeline in place with
\* the value it had.
C27_OnlySaveAndDeleteClearTimelines ==
    [][IF MemWriteStep
       THEN userTimeline' = << >>
       ELSE \A v \in DOMAIN userTimeline :
                v \in DOMAIN userTimeline' /\ userTimeline'[v] = userTimeline[v]]_vars

\* a tweet has just been saved by a user whose timeline was cached, both users
\* exist, and no timeline is cached any more
C27_Witness ==
    /\ mode = "local"
    /\ ret.op = "CreateTweet" /\ ret.err = Nil /\ ret.hadEntry
    /\ userCount = 2
    /\ userTimeline = << >>

----------------------------------------------------------------------------
(* The in-memory tweet repository with its slices as Go holds them.  A slice
   is a header [arr, len, cap] over a backing array in heap.arrays; userTweets
   and userTimeline map a user id to a header.  append writes in place when
   the capacity allows and moves to a new array otherwise; two headers over
   one array see each other's writes.  held is the set of headers GetTimeline
   returned that a caller keeps.  Arrays no header refers to are collected. *)

\* slices callers keep at most
MaxHeld == 1

\* an array slot nothing was written to
NilTweet == [ID |-> NoTweet, UserID |-> None, Content |-> <<>>, CreatedAt |-> 0]

\* the nil slice, and make([]*entity.Tweet, 0)
NilSlice == [arr |-> 0, len |-> 0, cap |-> 0]

\* the elements of slice h in the arrays hp
Deref(h, hp) == [i \in 1..h.len |-> hp[h.arr][i]]

\* a new backing array
NewArr(hp) == CHOOSE a \in 1..(Cardinality(DOMAIN hp) + 1) : a \notin DOMAIN hp

\* the capacity append grows to for needed elements (exact for the pointer
\* slices of up to four elements met here)
GrowCap(cap, needed) == IF needed > 2 * cap THEN needed ELSE 2 * cap

\* append(h, elems...): the new header and the arrays after it
AppendSlice(h, elems, hp) ==
    IF h.len + Len(elems) <= h.cap
    THEN [slice |-> [h EXCEPT !.len = h.len + Len(elems)],
          heap |-> [hp EXCEPT ![h.arr] =
                        [i \in 1..h.cap |->
                            IF i > h.len /\ i <= h.len + Len(elems)
                            THEN elems[i - h.len] ELSE @[i]]]]
    ELSE LET a == NewArr(hp)
             cap == GrowCap(h.cap, h.len + Len(elems))
             old == Deref(h, hp)
         IN [slice |-> [arr |-> a, len |-> h.len + Len(elems), cap |-> cap],
             heap |-> [b \in DOMAIN hp \cup {a} |->
                        IF b = a
                        THEN [i \in 1..cap |->
                                IF i <= h.len THEN old[i]
                                ELSE IF i <= h.len + Len(elems) THEN elems[i - h.len]
                                ELSE NilTweet]
                        ELSE hp[b]]]

\* append(tweets[:i], tweets[i+1:]...) in Delete, i being the position of the
\* tweet (counted from 1 here): the result always fits the capacity, so the
\* elements after position i move one slot down in the same array and the
\* last slot keeps what it held
RemoveAt(h, i, hp) ==
    [slice |-> [h EXCEPT !.len = h.len - 1],
     heap |-> [hp EXCEPT ![h.arr] =
                    [k \in 1..h.cap |->
                        IF k >= i /\ k < h.len THEN @[k + 1] ELSE @[k]]]]

\* the arrays some header still refers to
Collect(hp, lists, timelines, keep) ==
    LET roots == {lists[u].arr : u \in DOMAIN lists}
                    \cup {timelines[u].arr : u \in DOMAIN timelines}
                    \cup {h.arr : h \in keep}
    IN [a \in DOMAIN hp \cap roots |-> hp[a]]

\* a timeline that is the author's own slice when only one list was collected
\* and it is already in order: no copy
TimelineSliceShared(lists, sorted, hp) ==
    LET nonEmpty == {i \in 1..Len(lists) : lists[i].len > 0} IN
    IF Cardinality(nonEmpty) = 1
        /\ \E i \in nonEmpty : Deref(lists[i], hp) = sorted
    THEN [slice |-> lists[CHOOSE i \in nonEmpty : TRUE], heap |-> hp]
    ELSE AppendSlice(NilSlice, sorted, hp)

\* GetTimeline's timeline: make([]*entity.Tweet, 0), the lists appended to it,
\* sorted in place: a slice over an array of its own holding sorted
TimelineSlice(lists, sorted, hp) == AppendSlice(NilSlice, sorted, hp)

SliceInit == InitWith("local", "nil", {})

\* heap after a step of the tweet repository that leaves arrays
ArraysBecome(arrays) == heap' = [objects |-> Kept(heap.objects), arrays |-> arrays]

\* TweetRepository.Save, its critical section
SliceStepSave(p) ==
    /\ At(p, "CreateTweet", "lock")
    /\ MutexCanLock(WriteLocked)
    /\ LET q == procs[p]
           tweet == NewTweet(tweetCount + 1, q.user, q.content, q.at).tweet[1]
           list == IF q.user \in DOMAIN userTweets THEN userTweets[q.user]
                   ELSE NilSlice
           app == AppendSlice(list, <<tweet>>, heap.arrays)
           lists == [u \in DOMAIN userTweets \cup {q.user} |->
                        IF u = q.user THEN app.slice ELSE userTweets[u]]
       IN /\ tweets' = MemStoreTweet(tweets, tweet)
          /\ userTweets' = lists
          /\ userTimeline' = invalidateTimelines(tweet.UserID)
          /\ Done(p, [q EXCEPT !.tweet = tweet.ID])
          /\ ArraysBecome(Collect(app.heap, lists, << >>, held))
    /\ tweetCount' = tweetCount + 1
    /\ UNCHANGED <<users, userCount, lastSet>>
    /\ memFrame

\* TweetRepository.Delete: one critical section
SliceDeleteTweet(id) ==
    /\ MutexCanLock(WriteLocked)
    /\ IF id \notin DOMAIN tweets
       THEN /\ ret' = RetErr("Delete", None, None, id, ErrTweetNotFound, <<>>)
            /\ UNCHANGED <<tweets, userTweets, userTimeline>>
            /\ ArraysBecome(heap.arrays)
       ELSE LET userID == tweets[id].UserID
                list == userTweets[userID]
                elems == Deref(list, heap.arrays)
                found == {i \in 1..list.len : elems[i].ID = id}
                rem == IF found = {} THEN [slice |-> list, heap |-> heap.arrays]
                       ELSE RemoveAt(list, CHOOSE i \in found : \A k \in found : i <= k,
                                     heap.arrays)
                lists == [userTweets EXCEPT ![userID] = rem.slice]
            IN /\ tweets' = [i \in DOMAIN tweets \ {id} |-> tweets[i]]
               /\ userTweets' = lists
               /\ userTimeline' = invalidateTimelines(userID)
               /\ ArraysBecome(Collect(rem.heap, lists, << >>, held))
               /\ ret' = RetErr("Delete", userID, None, id, Nil, <<>>)
    /\ Others
    /\ UNCHANGED <<users, userCount, tweetCount, acked, lastSet, held>>
    /\ UNCHANGED <<ddbVars, mode, timelineCache>>

\* TweetRepository.GetTimeline, the cache check under the read lock; keep: the
\* caller keeps the slice it is handed
SliceStepCheckCache(p, keep) ==
    /\ At(p, "GetTimeline", "cache")
    /\ MutexCanLock(WriteLocked)
    /\ LET q == procs[p] IN
       IF q.user \in DOMAIN userTimeline
       THEN /\ keep => Cardinality(held) < MaxHeld
            /\ Returns(p, Returned(q, Nil, Deref(userTimeline[q.user], heap.arrays),
                                   "hit"))
            /\ held' = IF keep THEN held \cup {userTimeline[q.user]} ELSE held
       ELSE /\ ~keep
            /\ Goes(p, [q EXCEPT !.pc = "user"])
            /\ UNCHANGED held
    /\ HeapKeeps(heap.objects)
    /\ UNCHANGED <<users, tweets, userTweets, userTimeline, userCount, tweetCount,
                   acked, lastSet>>
    /\ UNCHANGED <<ddbVars, mode, timelineCache>>

\* TweetRepository.GetTimeline, the critical section that builds the timeline
SliceStepBuild(p, keep) ==
    /\ At(p, "GetTimeline", "lock")
    /\ MutexCanLock(WriteLocked)
    /\ keep => Cardinality(held) < MaxHeld
    /\ LET q == procs[p]
           followingIDs == SetToSeq(q.following) \o <<q.user>>
           lists == [i \in 1..Len(followingIDs) |->
                        IF followingIDs[i] \in DOMAIN userTweets
                        THEN userTweets[followingIDs[i]] ELSE NilSlice]
           collected == Flatten([i \in 1..Len(lists) |-> Deref(lists[i], heap.arrays)])
       IN \E sorted \in SortSlice(collected) :
            LET t == TimelineSlice(lists, sorted, heap.arrays)
                timelines == [u \in DOMAIN userTimeline \cup {q.user} |->
                                IF u = q.user THEN t.slice ELSE userTimeline[u]]
            IN /\ userTimeline' = timelines
               /\ held' = IF keep THEN held \cup {t.slice} ELSE held
               /\ ArraysBecome(Collect(t.heap, userTweets, timelines, held'))
               /\ Returns(p, Returned(q, Nil, sorted, "stores"))
    /\ UNCHANGED <<users, tweets, userTweets, userCount, tweetCount, acked, lastSet>>
    /\ UNCHANGED <<ddbVars, mode, timelineCache>>

SliceSteps(S) ==
    \/ MemCreateUser
    \/ \E p \in S, u \in UserIDs, v \in UserIDs : MemStartFollowUser(p, u, v)
    \/ \E p \in S : MemStepFindFollowed(p)
    \/ \E p \in S : MemStepFollow(p)
    \/ \E p \in S : MemStepUpdate(p)
    \/ \E p \in S, u \in UserIDs, c \in PostedContents, at \in 1..SmallMaxTime :
            MemStartCreateTweet(p, u, c, at)
    \/ \E p \in S : SliceStepSave(p)
    \/ \E id \in TweetIDs : SliceDeleteTweet(id)
    \/ \E p \in S, u \in UserIDs : MemStartGetTimeline(p, u)
    \/ \E p \in S, keep \in BOOLEAN : SliceStepCheckCache(p, keep)
    \/ \E p \in S : MemStepFindUser(p)
    \/ \E p \in S : MemStepGetFollowing(p)
    \/ \E p \in S, keep \in BOOLEAN : SliceStepBuild(p, keep)

SliceNext == SliceSteps(1..MaxInFlight)

SpecSlices == SliceInit /\ [][SliceNext]_vars

\* C28: a timeline is a snapshot.  A step of Save, Delete or GetTimeline, for
\* any user, changes neither the elements nor the order seen through a slice
\* GetTimeline returned earlier and a caller keeps, or through a slice that
\* stays in the cache; Delete's removal inside the author's array is seen by
\* none of them; and the slice just returned holds the sequence that was
\* computed.
C28_TimelineIsSnapshot ==
    [][/\ \A h \in held :
            /\ h \in held'
            /\ h.len > 0 => h.arr \in DOMAIN heap'.arrays
            /\ Deref(h, heap'.arrays) = Deref(h, heap.arrays)
       /\ \A u \in DOMAIN userTimeline :
            (u \in DOMAIN userTimeline' /\ userTimeline'[u] = userTimeline[u]) =>
                Deref(userTimeline[u], heap'.arrays) = Deref(userTimeline[u], heap.arrays)
       /\ (ret'.op = "GetTimeline" /\ ret'.err = Nil) =>
            Deref(userTimeline'[ret'.user], heap'.arrays) = ret'.timeline]_vars

\* a tweet has just been deleted from inside its author's array, which kept
\* its place, while a caller holds a timeline with that tweet in it
C28_Witness ==
    /\ ret.op = "Delete" /\ ret.err = Nil
    /\ userTweets[ret.user].len >= 1
    /\ \E h \in held : \E i \in 1..h.len :
            /\ heap.arrays[h.arr][i].ID = ret.tweet
            /\ h.len = 2
    /\ Deref(userTweets[ret.user], heap.arrays)[1].ID # ret.tweet

----------------------------------------------------------------------------
(* The Following set of a stored user in local mode.  memory.UserRepository
   keeps pointers: FindByID hands out the stored object, so follower.Follow
   and follower.Unfollow write the stored user's Following map, and
   GetFollowing and IsFollowing read it.  A write and a read of the map take
   time: each has a step at which it begins and a step at which it ends.
   procs[p].pending holds the users whose Following map call p is reading
   (pc "reading") or writing (pc "writing").  The Go runtime may end the
   process when a map is written while it is read or written by another
   goroutine: every call then stops where it stands, its op "fatal", and
   nothing runs any more. *)

MemRaceInit == InitWith("local", "nil", {})

\* the calls that hold the user repository's mutex for reading
UserRLocked ==
    {p \in DOMAIN procs :
        procs[p].op \in {"GetFollowers", "GetFollowing"} /\ procs[p].pc = "reading"}

\* the runtime has ended the process
Crashed == \E p \in DOMAIN procs : procs[p].op = "fatal"

\* two calls are inside accesses of one user's Following map and one of them
\* writes it
MapRace ==
    \E p \in DOMAIN procs, q \in DOMAIN procs :
        /\ p # q
        /\ procs[p].pc = "writing"
        /\ procs[q].pc \in {"reading", "writing"}
        /\ procs[p].pending \cap procs[q].pending # {}

\* follower.Follow(followedID) begins: ErrCannotFollowSelf before the map is
\* touched, else u.Following[userID] = true begins; follower.Unfollow begins:
\* delete(u.Following, userID); no lock is held
GraphBeginWrite(p) ==
    /\ p \in DOMAIN procs
    /\ \/ procs[p].op = "FollowUser" /\ procs[p].pc = "follow"
       \/ procs[p].op = "UnfollowUser" /\ procs[p].pc = "unfollow"
    /\ LET q == procs[p] IN
       IF q.op = "FollowUser" /\ Follow(Object(q.ptr), q.other).err # Nil
       THEN Returns(p, Failed(q, Follow(Object(q.ptr), q.other).err))
       ELSE Goes(p, [q EXCEPT !.pc = "writing", !.pending = {q.ptr}])
    /\ UNCHANGED acked
    /\ graphFrame

\* the write of the map ends: the object has the new set
GraphEndWrite(p) ==
    /\ p \in DOMAIN procs
    /\ procs[p].op \in {"FollowUser", "UnfollowUser"} /\ procs[p].pc = "writing"
    /\ LET q == procs[p] IN
        /\ Goes(p, [q EXCEPT !.pc = "update", !.pending = {}])
        /\ ObjectBecomes(q.ptr, IF q.op = "FollowUser"
                                THEN Follow(Object(q.ptr), q.other).user
                                ELSE Unfollow(Object(q.ptr), q.other))
    /\ UNCHANGED <<tweets, userTweets, userTimeline, userCount, tweetCount, acked,
                   lastSet>>
    /\ memFrame

\* memory.UserRepository.Update takes the write lock of the user repository
GraphUpdate(p) ==
    /\ UserRLocked = {}
    /\ MemStepUpdate(p)

\* TweetRepository.GetTimeline after a miss: r.userRepo.FindByID has returned
\* the stored user and user.GetFollowing() begins, under no lock
GraphBeginGetFollowing(p) ==
    /\ At(p, "GetTimeline", "following")
    /\ Goes(p, [procs[p] EXCEPT !.pc = "reading", !.pending = {procs[p].ptr}])
    /\ readFrame

\* user.GetFollowing() ends: followingIDs holds what the map held
GraphEndGetFollowing(p) ==
    /\ At(p, "GetTimeline", "reading")
    /\ LET q == procs[p] IN
       Goes(p, [q EXCEPT !.pc = "lock", !.pending = {}, !.ptr = None,
                         !.following = GetFollowing(Object(q.ptr))])
    /\ readFrame

\* memory.UserRepository.FindFollowers takes the read lock and calls
\* IsFollowing on every stored user; FindFollowing takes it and calls
\* GetFollowing on the user
GraphBeginRead(p) ==
    /\ p \in DOMAIN procs
    /\ procs[p].op \in {"GetFollowers", "GetFollowing"} /\ procs[p].pc = "find"
    /\ LET q == procs[p] IN
       Goes(p, [q EXCEPT !.pc = "reading",
                         !.pending = IF q.op = "GetFollowers" THEN DOMAIN users
                                     ELSE {q.user} \cap DOMAIN users])
    /\ UNCHANGED acked
    /\ graphFrame

\* FindFollowers and FindFollowing release the read lock and return
GraphEndRead(p) ==
    /\ p \in DOMAIN procs
    /\ procs[p].op \in {"GetFollowers", "GetFollowing"} /\ procs[p].pc = "reading"
    /\ LET q == procs[p]
           found == IF q.op = "GetFollowers" THEN MemFindFollowers(q.user)
                    ELSE MemFindFollowing(q.user)
       IN Returns(p, ReturnedUsers(q, found.err, found.users))
    /\ UNCHANGED acked
    /\ graphFrame

\* the runtime detects the concurrent map access and ends the process
GraphFatal ==
    /\ ~Crashed
    /\ MapRace
    /\ procs' = [p \in DOMAIN procs |-> [procs[p] EXCEPT !.op = "fatal"]]
    /\ ret' = NoRet
    /\ UNCHANGED <<users, tweets, userTweets, userTimeline, userCount, tweetCount,
                   acked, lastSet, heap>>
    /\ memFrame

\* UserRepository.Save takes the write lock of the user repository
GraphCreateUser ==
    /\ ~Crashed
    /\ UserRLocked = {}
    /\ MemCreateUser

----------------------------------------------------------------------------
(* memory.TweetRepository under concurrent calls (local mode), with the
   sections it runs under r.mutex.Lock() taken in two steps: a call takes
   r.mutex and runs the first part of its locked section in one step, and
   runs the rest of the section and releases r.mutex in another.  A call of
   Delete waits at r.mutex.Lock() from the moment it is made.  FollowUser
   writes the Following map of the stored user and GetTimeline reads it under
   no lock: each access begins and ends in separate steps and the runtime may
   end the process when they overlap.  lastSet[u] holds here the authors the
   cached timeline of u was built from. *)

MemConcInit == InitWith("local", "nil", {"authors"})

\* a step of the tweet repository that changes nothing but the request
repoFrame ==
    /\ HeapKeeps(heap.objects)
    /\ UNCHANGED <<users, userCount, tweetCount, acked>>
    /\ memFrame

\* TweetRepository.Delete is called for an id uuid.New has handed out
MemStartDelete(p, id) ==
    /\ FreeSlot(p)
    /\ id \in 1..tweetCount
    /\ Goes(p, [Asked("Delete", None, None) EXCEPT !.pc = "lock", !.tweet = id])
    /\ UNCHANGED <<tweets, userTweets, userTimeline, lastSet>>
    /\ repoFrame

\* Save: r.mutex.Lock(); the tweet is put in r.tweets and appended to the
\* author's list
MemStepStore(p) ==
    /\ At(p, "CreateTweet", "lock")
    /\ MutexCanLock(WriteLocked)
    /\ LET q == procs[p]
           tweet == NewTweet(tweetCount + 1, q.user, q.content, q.at).tweet[1]
       IN /\ tweets' = MemStoreTweet(tweets, tweet)
          /\ userTweets' = MemAppendTweet(userTweets, tweet)
          /\ Goes(p, [q EXCEPT !.pc = "invalidate", !.tweet = tweet.ID])
    /\ tweetCount' = tweetCount + 1
    /\ HeapKeeps(heap.objects)
    /\ UNCHANGED <<users, userCount, userTimeline, lastSet, acked>>
    /\ memFrame

\* Delete: r.mutex.Lock(); no tweet has the id, ErrTweetNotFound is returned
\* and the deferred Unlock runs; or the tweet is taken from r.tweets and from
\* its author's list
MemStepRemove(p) ==
    /\ At(p, "Delete", "lock")
    /\ MutexCanLock(WriteLocked)
    /\ LET q == procs[p] IN
       IF q.tweet \notin DOMAIN tweets
       THEN /\ Returns(p, Failed(q, ErrTweetNotFound))
            /\ UNCHANGED <<tweets, userTweets>>
       ELSE LET userID == tweets[q.tweet].UserID IN
            /\ tweets' = [i \in DOMAIN tweets \ {q.tweet} |-> tweets[i]]
            /\ userTweets' = [userTweets EXCEPT ![userID] = RemoveFirst(@, q.tweet)]
            /\ Goes(p, [q EXCEPT !.pc = "invalidate", !.user = userID])
    /\ UNCHANGED <<userTimeline, lastSet>>
    /\ repoFrame

\* Save and Delete: r.invalidateTimelines(userID), the deferred
\* r.mutex.Unlock() and the return of nil
MemStepInvalidate(p) ==
    /\ p \in DOMAIN procs
    /\ procs[p].op \in {"CreateTweet", "Delete"} /\ procs[p].pc = "invalidate"
    /\ LET q == procs[p] IN
        /\ userTimeline' = invalidateTimelines(q.user)
        /\ AuthorsAfter([u \in UserIDs |->
                          IF u \in DOMAIN invalidateTimelines(q.user)
                          THEN lastSet[u] ELSE << >>])
        /\ Done(p, q)
    /\ HeapKeeps(heap.objects)
    /\ UNCHANGED <<users, userCount, tweetCount, tweets, userTweets>>
    /\ memFrame

\* GetTimeline: r.mutex.Lock(); the tweets of followingIDs are collected
MemStepCollect(p) ==
    /\ At(p, "GetTimeline", "lock")
    /\ MutexCanLock(WriteLocked)
    /\ LET q == procs[p] IN
       Goes(p, [q EXCEPT !.pc = "sort",
                         !.all = MemCollect([ID |-> q.user, Following |-> q.following])])
    /\ UNCHANGED <<tweets, userTweets, userTimeline, lastSet>>
    /\ repoFrame

\* GetTimeline: still under the write lock, the collected tweets are sorted
\* and the timeline is put in r.userTimeline; the deferred r.mutex.Unlock()
\* and the return of the timeline
MemStepCache(p) ==
    /\ At(p, "GetTimeline", "sort")
    /\ LET q == procs[p] IN
       \E timeline \in SortSlice(q.all) :
            /\ userTimeline' = [u \in DOMAIN userTimeline \cup {q.user} |->
                                  IF u = q.user THEN timeline ELSE userTimeline[u]]
            /\ AuthorsAfter([lastSet EXCEPT ![q.user] =
                                <<[authors |-> q.following \cup {q.user}]>>])
            /\ Returns(p, Returned(q, Nil, timeline, "stores"))
    /\ UNCHANGED <<tweets, userTweets>>
    /\ repoFrame

MemConcSteps(S, N, T) ==
    \/ GraphCreateUser
    \/ \E p \in S, u \in UserIDs, v \in UserIDs : MemStartFollowUser(p, u, v)
    \/ \E p \in S : MemStepFindFollowed(p)
    \/ \E p \in S : GraphBeginWrite(p)
    \/ \E p \in S : GraphEndWrite(p)
    \/ \E p \in S : GraphUpdate(p)
    \/ \E p \in S, u \in UserIDs, c \in PostedContents, at \in 1..T :
            /\ TweetsBegun < N
            /\ MemStartCreateTweet(p, u, c, at)
    \/ \E p \in S : MemStepStore(p)
    \/ \E p \in S, id \in 1..N : MemStartDelete(p, id)
    \/ \E p \in S : MemStepRemove(p)
    \/ \E p \in S : MemStepInvalidate(p)
    \/ \E p \in S, u \in UserIDs : MemStartGetTimeline(p, u)
    \/ \E p \in S : MemStepCheckCache(p)
    \/ \E p \in S : MemStepFindUser(p)
    \/ \E p \in S : GraphBeginGetFollowing(p)
    \/ \E p \in S : GraphEndGetFollowing(p)
    \/ \E p \in S : MemStepCollect(p)
    \/ \E p \in S : MemStepCache(p)
    \/ GraphFatal

MemConcNext == MemConcSteps(1..MaxProcs, SmallMaxTweets, SmallMaxTime)

SpecMemConc == MemConcInit /\ [][MemConcNext]_vars

\* the tweets r.tweets holds
MemStoredTweets == {tweets[id] : id \in DOMAIN tweets}

\* the elements of a list
Elements(list) == {list[i] : i \in 1..Len(list)}

\* C30: in the in-memory repository, whenever no call holds the write lock,
\* every cached timeline holds exactly the tweets now stored for the authors
\* it was built from, each once, whatever the interleaving of the concurrent
\* Save, Delete and GetTimeline calls.
C30_CachedTimelinesCoherent ==
    WriteLocked = {} =>
        \A v \in DOMAIN userTimeline :
            /\ lastSet[v] # << >>
            /\ Elements(userTimeline[v]) =
                   {t \in MemStoredTweets : t.UserID \in lastSet[v][1].authors}
            /\ Len(userTimeline[v]) = Cardinality(Elements(userTimeline[v]))

\* no call holds the write lock, a timeline with a tweet of a followed user
\* is cached, and a Delete and a GetTimeline are in progress
C30_Witness ==
    /\ WriteLocked = {}
    /\ \E v \in DOMAIN userTimeline :
         \E i \in 1..Len(userTimeline[v]) : userTimeline[v][i].UserID # v
    /\ \E p \in DOMAIN procs : procs[p].op = "Delete"
    /\ \E p \in DOMAIN procs : procs[p].op = "GetTimeline"

----------------------------------------------------------------------------
(* memory.TweetRepository called directly: Save with any tweet, the id of a
   stored tweet included, and Delete with any id.  tweetCount counts the
   calls of Save. *)

\* calls of Save made in one history
MaxSaves == MaxTweets + 1

\* TweetRepository.Save(tweet) for a tweet with any id: one critical section
RepoSave(id, userID, at) ==
    /\ tweetCount < MaxSaves
    /\ LET tweet == NewTweet(id, userID, CHOOSE c \in PostedContents : TRUE, at).tweet[1]
       IN /\ tweets' = MemStoreTweet(tweets, tweet)
          /\ userTweets' = MemAppendTweet(userTweets, tweet)
          /\ userTimeline' = invalidateTimelines(tweet.UserID)
    /\ tweetCount' = tweetCount + 1
    /\ ret' = RetErr("Save", userID, None, id, Nil, <<>>)
    /\ Others
    /\ HeapKeeps(heap.objects)
    /\ UNCHANGED <<users, userCount, acked, lastSet>>
    /\ memFrame

RepoNext ==
    \/ \E id \in TweetIDs, u \in UserIDs, at \in Times : RepoSave(id, u, at)
    \/ \E id \in TweetIDs : MemDeleteTweet(id)

SpecRepo == MemInit /\ [][RepoNext]_vars

\* the list the per-author index holds for a user
IndexList(u) == IF u \in DOMAIN userTweets THEN userTweets[u] ELSE <<>>

\* C31: after any sequence of Save and Delete calls on the in-memory
\* repository, a Save of a stored id included, the list userTweets[u] of every
\* user u holds exactly the tweets of the tweet map whose author is u, each
\* once.
C31_IndexAgreesWithMap ==
    \A u \in UserIDs :
        /\ {IndexList(u)[i] : i \in 1..Len(IndexList(u))} =
               {tweets[id] : id \in {i \in DOMAIN tweets : tweets[i].UserID = u}}
        /\ \A i \in 1..Len(IndexList(u)), j \in 1..Len(IndexList(u)) :
               IndexList(u)[i] = IndexList(u)[j] => i = j

----------------------------------------------------------------------------
(* FollowUser and UnfollowUser of one follower run concurrently in lambda
   mode: each call reads the follower's item, changes its own copy and
   writes the whole item back.  Three users are stored.  acked records
   <<"followAsked", u, v>> and <<"unfollowAsked", u, v>> when a call has
   read its follower, <<"followed", u, v>> and <<"unfollowed", u, v>> when it
   has returned nil. *)

\* the stored users; the follower whose calls race is the first
RaceUsers == {"A", "B", "C"}
RaceFollower == "A"

FollowRaceInit ==
    /\ users = << >>
    /\ tweets = << >>
    /\ userTweets = << >>
    /\ userTimeline = << >>
    /\ usersTable = [id \in RaceUsers |-> toDynamoDBUser(NewUser(id))]
    /\ tweetsTable = << >>
    /\ redis = << >>
    /\ now = 0
    /\ mode = "lambda"
    /\ timelineCache = "redis"
    /\ userCount = Cardinality(RaceUsers)
    /\ tweetCount = 0
    /\ ret = NoRet
    /\ procs = [p \in 1..MaxProcs |-> Idle]
    /\ acked = {<<"watch", "follows">>}
    /\ lastSet = [u \in UserIDs |-> << >>]
    /\ heap = NoHeap
    /\ held = {}

FollowRaceNext ==
    \/ \E p \in 1..MaxProcs, v \in RaceUsers : StartFollowUser(p, RaceFollower, v, TRUE)
    \/ \E p \in 1..MaxProcs : StepFindFollowed(p, TRUE)
    \/ \E p \in 1..MaxProcs, v \in RaceUsers : StartUnfollowUser(p, RaceFollower, v, TRUE)
    \/ \E p \in 1..MaxProcs : StepUpdate(p, TRUE)
    \/ \E p \in 1..MaxProcs : StepInvalidate(p, TRUE)

SpecFollowRace == FollowRaceInit /\ [][FollowRaceNext]_vars

\* C32: in lambda mode no follow is lost under concurrency: a FollowUser(u, v)
\* that returned success, with no UnfollowUser(u, v) ever asked, has v in the
\* stored Following set of u, whatever other FollowUser and UnfollowUser calls
\* of u ran concurrently; and an UnfollowUser(u, v) that returned success,
\* with no FollowUser(u, v) ever asked, has v out of it.
C32_NoFollowLost ==
    \A u \in RaceUsers, v \in RaceUsers :
        /\ (<<"followed", u, v>> \in acked /\ <<"unfollowAsked", u, v>> \notin acked)
              => v \in DdbFindUser(u)[1].Following
        /\ (<<"unfollowed", u, v>> \in acked /\ <<"followAsked", u, v>> \notin acked)
              => v \notin DdbFindUser(u)[1].Following

----------------------------------------------------------------------------
(* FollowUser, UnfollowUser, GetTimeline, GetFollowers and GetFollowing run
   concurrently in local mode on the Following maps of the stored users. *)

\* the steps of FollowUser, UnfollowUser, GetTimeline, GetFollowers and
\* GetFollowing in the slots S
GraphRaceSteps(S) ==
    \/ GraphCreateUser
    \/ \E p \in S, u \in UserIDs, v \in UserIDs : MemStartFollowUser(p, u, v)
    \/ \E p \in S : MemStepFindFollowed(p)
    \/ \E p \in S, u \in UserIDs, v \in UserIDs : MemStartUnfollowUser(p, u, v)
    \/ \E p \in S : GraphBeginWrite(p)
    \/ \E p \in S : GraphEndWrite(p)
    \/ \E p \in S : GraphUpdate(p)
    \/ \E p \in S, u \in UserIDs : MemStartGetTimeline(p, u)
    \/ \E p \in S : MemStepCheckCache(p)
    \/ \E p \in S : MemStepFindUser(p)
    \/ \E p \in S : GraphBeginGetFollowing(p)
    \/ \E p \in S : GraphEndGetFollowing(p)
    \/ \E p \in S : MemStepCollect(p)
    \/ \E p \in S : MemStepCache(p)
    \/ GraphFatal

GraphRaceNext ==
    \/ GraphRaceSteps(1..MaxProcs)
    \/ \E p \in 1..MaxProcs, u \in UserIDs : MemStartGetFollowers(p, u)
    \/ \E p \in 1..MaxProcs, u \in UserIDs : MemStartGetFollowing(p, u)
    \/ \E p \in 1..MaxProcs : GraphBeginRead(p)
    \/ \E p \in 1..MaxProcs : GraphEndRead(p)

SpecGraphRace == MemRaceInit /\ [][GraphRaceNext]_vars

\* C33: in local mode the Following set of a stored user is never written by
\* FollowUser or UnfollowUser while GetTimeline, GetFollowers or GetFollowing
\* is reading the same set.
C33_FollowingNeverReadWhileWritten ==
    \A p \in DOMAIN procs, q \in DOMAIN procs :
        (procs[p].pc = "writing" /\ procs[q].pc = "reading")
            => procs[p].pending \cap procs[q].pending = {}

----------------------------------------------------------------------------
(* The two mutexes of the in-memory repositories: Save, Delete, FindByUserID
   and GetTimeline on the tweet repository, FollowUser and UnfollowUser on
   the user repository, all running concurrently in local mode. *)

\* a step of a call in progress
LockStep(p) ==
    \/ MemStepStore(p)
    \/ MemStepRemove(p)
    \/ MemStepInvalidate(p)
    \/ MemStepFindByUserID(p)
    \/ MemStepCheckCache(p)
    \/ MemStepFindUser(p)
    \/ GraphBeginGetFollowing(p)
    \/ GraphEndGetFollowing(p)
    \/ MemStepCollect(p)
    \/ MemStepCache(p)
    \/ MemStepFindFollowed(p)
    \/ GraphBeginWrite(p)
    \/ GraphEndWrite(p)
    \/ GraphUpdate(p)

LocksNext ==
    \/ GraphRaceSteps(1..MaxProcs)
    \/ \E p \in 1..MaxProcs, u \in UserIDs, c \in PostedContents, at \in 1..SmallMaxTime :
            /\ TweetsBegun < SmallMaxTweets
            /\ MemStartCreateTweet(p, u, c, at)
    \/ \E p \in 1..MaxProcs : MemStepStore(p)
    \/ \E p \in 1..MaxProcs, id \in 1..SmallMaxTweets : MemStartDelete(p, id)
    \/ \E p \in 1..MaxProcs : MemStepRemove(p)
    \/ \E p \in 1..MaxProcs : MemStepInvalidate(p)
    \/ \E p \in 1..MaxProcs, u \in UserIDs : MemStartGetTweetsByUser(p, u)
    \/ \E p \in 1..MaxProcs : MemStepFindByUserID(p)

SpecMemLocks == MemRaceInit /\ [][LocksNext]_vars

\* the calls in progress
InProgress == {p \in DOMAIN procs : procs[p].op # "idle"}

\* C34: whatever Save, Delete, FindByUserID, GetTimeline, FollowUser and
\* UnfollowUser calls run concurrently on the in-memory repositories, the
\* calls in progress are never all stuck (one of them can take its next step,
\* so each goes on until it returns), and a call that holds the tweet
\* repository's mutex can always take its next step: it never waits for the
\* user repository's mutex.
C34_NoCallStuck ==
    /\ InProgress # {} => ENABLED (\E p \in InProgress : LockStep(p))
    /\ \A p \in WriteLocked : ENABLED LockStep(p)

----------------------------------------------------------------------------
(* Lambda mode over a Redis in which another writer of the timeline keys
   leaves values that are not the JSON of a tweet list: the requests of the
   service and direct lookups in the cache.  Any call on DynamoDB or Redis
   may fail, the DEL that cache.GetTimeline issues on a value it cannot
   decode included. *)

\* another writer sets a value json.Unmarshal cannot decode under the user's key
ForeignSet(userID) ==
    /\ redis' = RedisSet(redis, now, generateKey(userID), ForeignEntry.val,
                         defaultTimelineTTL)
    /\ ret' = RetErr("foreign.Set", userID, None, NoTweet, Nil, <<>>)
    /\ Others
    /\ UNCHANGED <<usersTable, tweetsTable, now, userCount, tweetCount, acked>>
    /\ lambdaFrame

DdbForeignNext ==
    \/ DdbRequests(1..MaxInFlight, BOOLEAN, SmallMaxTweets, SmallMaxTime)
    \/ \E p \in 1..MaxInFlight, up \in BOOLEAN : StepCacheHeal(p, up)
    \/ \E p \in 1..MaxInFlight, u \in UserIDs, up \in BOOLEAN : CacheGetTimeline(p, u, up)
    \/ \E p \in 1..MaxInFlight, up \in BOOLEAN : CacheHealTimeline(p, up)
    \/ \E u \in UserIDs : ForeignSet(u)

SpecDdbForeign == InitWith("lambda", "redis", {}) /\ [][DdbForeignNext]_vars

\* the user's key holds a live entry that does not decode
Corrupt(userID) ==
    /\ generateKey(userID) \in RedisLive(redis, now)
    /\ UnmarshalTimeline(redis[generateKey(userID)].val).err # Nil

\* the lookup that follows finds nothing under the user's key
CleanMiss(userID) ==
    /\ generateKey(userID) \notin DOMAIN redis
    /\ GetTimeline(redis, now, userID, TRUE) = Got(<< >>, FALSE, Nil, redis, FALSE)

\* what a lookup whose GET Redis answers does with an entry it cannot decode,
\* up to its DEL: a direct lookup that returns at once has met no such entry,
\* one that returns the decoding error has made its DEL, and a request goes
\* from its GET to the DEL and from there to the stores
MeetsCorruptEntry ==
    /\ \A u \in UserIDs :
        (/\ ret'.op = "cache.GetTimeline" /\ ret'.user = u /\ ReturnsAtOnce
         /\ ret'.err # ErrRedis) =>
            /\ ~Corrupt(u)
            /\ ret'.err = Nil
    /\ \A p \in DOMAIN procs :
        /\ (procs[p] = Idle /\ procs'[p].op = "cache.GetTimeline") =>
            /\ Corrupt(procs'[p].user)
            /\ procs'[p].pc = "heal"
            /\ redis' = redis
        /\ (At(p, "cache.GetTimeline", "heal") /\ StepOf(p)) =>
            /\ ReturnsNow(p)
            /\ ret'.err = Err("unmarshal", "")
            /\ ret'.source = "none"
            /\ ret'.timeline = << >>
        /\ (At(p, "GetTimeline", "cacheGet") /\ StepOf(p) /\ Corrupt(procs[p].user)) =>
            /\ redis' = redis
            /\ \/ procs'[p].pc = "cacheHeal"
               \/ /\ procs'[p].pc = "findUser"
                  /\ procs'[p].cacheErr = Nil
                  /\ procs'[p].calls = <<Call("GetTimeline", procs[p].user, ErrRedis)>>
        /\ (At(p, "GetTimeline", "cacheHeal") /\ StepOf(p)) =>
            /\ procs'[p].pc = "findUser"
            /\ procs'[p].cacheErr = Err("unmarshal", "")
            /\ procs'[p].calls = <<Call("GetTimeline", procs[p].user, Err("unmarshal", ""))>>

\* the request that met an entry it could not decode returns the timeline
\* assembled from the stores and stores a fresh entry holding it
ReadGoesOnToTheStores ==
    \A p \in DOMAIN procs : \A u \in UserIDs :
        (/\ At(p, "GetTimeline", "fetch") /\ ReturnsNow(p)
         /\ procs[p].user = u
         /\ procs[p].cacheErr = Err("unmarshal", "")
         /\ ret'.err = Nil) =>
            /\ ret'.source = "stores"
            /\ ret'.timeline \in SortSlice(procs[p].all)
            /\ ret'.calls = <<Call("GetTimeline", u, Err("unmarshal", "")),
                              Call("SetTimeline", u, Nil)>>
            /\ redis'[generateKey(u)] =
                    [val |-> MarshalTimeline(ret'.timeline),
                     exp |-> now + defaultTimelineTTL]
            /\ \E got \in {GetTimeline(redis', now', u, TRUE)} :
                    got.found /\ got.timeline = ret'.timeline

\* the DEL of a lookup removes the entry
HealDeletes(p) ==
    \A u \in UserIDs : procs[p].user = u => CleanMiss(u)'

\* C35: when RedisTimelineCache.GetTimeline finds a payload it cannot decode
\* it deletes the entry and returns found = false with the decoding error, so
\* that the next lookup for the user is a clean miss; and a GetTimeline
\* request that meets such an entry still returns the timeline assembled from
\* the stores and stores a fresh entry holding it.
C35_CorruptEntryHeals ==
    [][/\ MeetsCorruptEntry
       /\ ReadGoesOnToTheStores
       /\ \A p \in DOMAIN procs :
            ((At(p, "cache.GetTimeline", "heal") \/ At(p, "GetTimeline", "cacheHeal"))
                /\ StepOf(p)) => HealDeletes(p)]_vars

----------------------------------------------------------------------------
(* The deployment without a cache against the deployment with Redis: every
   request is served twice from the same tables, call by call, first by the
   repositories and use cases main wired with a nil TimelineCache, then by
   the ones it wired with a Redis that answers and holds no entry; acked
   keeps the request, the tables it was served from and what the first
   service returned and left.  DynamoDB answers the two services alike. *)

\* the contents of DynamoDB and the ids handed out
Tables ==
    [usersTable |-> usersTable, tweetsTable |-> tweetsTable,
     userCount |-> userCount, tweetCount |-> tweetCount]

\* after a call that failed nothing is asked of a later one
EndsAtFirstFailure(ups) ==
    \A i \in 1..Len(ups), j \in 1..Len(ups) : (i < j /\ ~ups[i]) => ups[j]

\* a request and the outcomes of its calls on DynamoDB: ups[k] says whether
\* the k-th is answered, fetchErr names the fetch task whose query fails
Request(op, u, v, c, at, id, ups, fetchErr) ==
    [op |-> op, u |-> u, v |-> v, c |-> c, at |-> at, id |-> id, ups |-> ups,
     fetchErr |-> fetchErr]

ReplayContents == PostedContents \cup {Text(0)}

\* the outcomes of up to three calls
Outcomes == {ups \in [1..3 -> BOOLEAN] : EndsAtFirstFailure(ups)}

ReplayRequests ==
    {Request("CreateTweet", u, None, c, at, NoTweet, ups, None) :
        u \in UserIDs, c \in ReplayContents, at \in 1..SmallMaxTime,
        ups \in {o \in Outcomes : o[3]}}
    \cup {Request("Delete", None, None, Text(0), 1, id, ups, None) :
        id \in 1..SmallMaxTweets, ups \in {o \in Outcomes : o[3]}}
    \cup {Request("GetTimeline", u, None, Text(0), 1, NoTweet, ups, f) :
        u \in UserIDs, ups \in {o \in Outcomes : o[3]}, f \in {None} \cup UserIDs}
    \cup {Request("FollowUser", u, v, Text(0), 1, NoTweet, ups, None) :
        u \in UserIDs, v \in UserIDs, ups \in Outcomes}
    \cup {Request("UnfollowUser", u, v, Text(0), 1, NoTweet, ups, None) :
        u \in UserIDs, v \in UserIDs, ups \in {o \in Outcomes : o[3]}}

\* the request in hand, with what is kept of it
InHand == (CHOOSE r \in acked : TRUE)[2]

\* main in lambda mode, REDIS_ENDPOINT unset or Redis not answering the ping
ReplayInit == InitWith("lambda", "nil", {})

replayFrame == UNCHANGED <<memVars, mode, now, procs, lastSet, heap, held>>

ReplayCreateUser ==
    /\ acked = {}
    /\ DdbCreateUser(TRUE)

\* a request arrives
ReplayAsk(q) ==
    /\ acked = {}
    /\ q.op = "CreateTweet" => tweetCount < SmallMaxTweets
    /\ acked' = {<<"replay", [req |-> q, from |-> Tables]>>}
    /\ ret' = RetErr("ask", None, None, NoTweet, Nil, <<>>)
    /\ UNCHANGED <<usersTable, tweetsTable, userCount, tweetCount, redis, timelineCache>>
    /\ replayFrame

\* the request in hand is to be served by the deployment timelineCache names
ToServe == acked # {} /\ Quiet /\ ret.op \in {"ask", "again"}

\* the first call of the request
ReplayStart(p) ==
    /\ ToServe
    /\ LET q == InHand.req IN
       \/ q.op = "CreateTweet" /\ StartCreateTweet(p, q.u, q.c, q.at, q.ups[1])
       \/ q.op = "Delete" /\ StartDelete(p, q.id, q.ups[1])
       \/ q.op = "GetTimeline" /\ StartGetTimeline(p, q.u, q.ups[1])
       \/ q.op = "FollowUser" /\ StartFollowUser(p, q.u, q.v, q.ups[1])
       \/ q.op = "UnfollowUser" /\ StartUnfollowUser(p, q.u, q.v, q.ups[1])

\* a later call of the request: DynamoDB answers as the request says, Redis,
\* where there is one, answers
ReplayStep(p) ==
    /\ acked # {}
    /\ LET q == InHand.req IN
       \/ StepPutItem(p, q.ups[2])
       \/ StepDeleteItem(p, q.ups[2])
       \/ StepFindFollowed(p, q.ups[2])
       \/ StepUpdate(p, IF q.op = "FollowUser" THEN q.ups[3] ELSE q.ups[2])
       \/ StepInvalidate(p, TRUE)
       \/ StepCacheGet(p, TRUE)
       \/ StepFindUser(p, q.ups[2])
       \/ \E id \in UserIDs : TaskQuery(p, id, id # q.fetchErr)
       \/ \E id \in UserIDs : TaskAppend(p, id)
       \/ Join(p, TRUE)

\* the same request goes to the deployment with Redis, over the tables the
\* first service started from
ReplayAgain ==
    /\ acked # {}
    /\ Quiet
    /\ timelineCache = "nil"
    /\ ret.op \notin {"ask", "again"}
    /\ acked' = {<<"replay", [req |-> InHand.req, from |-> InHand.from,
                              got |-> ret, left |-> Tables, cache |-> redis]>>}
    /\ usersTable' = InHand.from.usersTable
    /\ tweetsTable' = InHand.from.tweetsTable
    /\ userCount' = InHand.from.userCount
    /\ tweetCount' = InHand.from.tweetCount
    /\ redis' = << >>
    /\ timelineCache' = "redis"
    /\ ret' = RetErr("again", None, None, NoTweet, Nil, <<>>)
    /\ replayFrame

\* both services have answered
Replayed == acked # {} /\ Quiet /\ timelineCache = "redis" /\ ret.op # "again"

\* on to the next request, from the tables the services left
ReplayDone ==
    /\ Replayed
    /\ acked' = {}
    /\ redis' = << >>
    /\ timelineCache' = "nil"
    /\ ret' = RetErr("done", None, None, NoTweet, Nil, <<>>)
    /\ UNCHANGED <<usersTable, tweetsTable, userCount, tweetCount>>
    /\ replayFrame

ReplayNext ==
    \/ ReplayCreateUser
    \/ \E q \in ReplayRequests : ReplayAsk(q)
    \/ \E p \in 1..MaxInFlight : ReplayStart(p)
    \/ \E p \in 1..MaxInFlight : ReplayStep(p)
    \/ ReplayAgain
    \/ ReplayDone

SpecReplay == ReplayInit /\ [][ReplayNext]_vars

\* the same tweets, each as often
SameTweets(s, t) ==
    /\ Len(s) = Len(t)
    /\ \A x \in Range(s) \cup Range(t) :
            Cardinality({i \in 1..Len(s) : s[i] = x})
                = Cardinality({i \in 1..Len(t) : t[i] = x})

\* C36: with a nil TimelineCache every request is served as with a cache that
\* always misses.  Without a cache no request calls a cache, and a GetTimeline
\* that succeeds returns a sorted arrangement of the stored tweets of the
\* fetch set; the same request served from the same tables with a Redis that
\* answers and holds no entry returns the same error, the same tweet id and
\* the same tweets, read from the stores as well, and leaves the same tables
\* and ids: the calls on the cache are all that differs, one
\* InvalidateTimeline after a write that succeeded, a lookup and a
\* SetTimeline around an assembly.
C36_NilCacheAsMissingCache ==
    /\ timelineCache = "nil" =>
            /\ ret.calls = <<>>
            /\ redis = << >>
            /\ (ret.op = "GetTimeline" /\ ret.err = Nil) =>
                    /\ ret.source = "stores"
                    /\ ret.timeline \in
                            SortSlice(DdbCollect(tweetsTable, DdbFindUser(ret.user)[1]))
    /\ Replayed =>
            /\ ret.op = InHand.req.op /\ InHand.got.op = InHand.req.op
            /\ ret.err = InHand.got.err
            /\ ret.tweet = InHand.got.tweet
            /\ Tables = InHand.left
            /\ SameTweets(ret.timeline, InHand.got.timeline)
            /\ ret.source = InHand.got.source
            /\ InHand.got.calls = <<>>
            /\ ret.calls =
                    IF ret.op \in Writes /\ ret.err = Nil
                    THEN <<Call("InvalidateTimeline",
                                IF ret.op = "Delete"
                                THEN InHand.from.tweetsTable[ret.tweet].UserID
                                ELSE ret.user, Nil)>>
                    ELSE IF ret.op = "GetTimeline"
                            /\ (InHand.req.ups[1] /\ DdbFindUser(ret.user) # NilPtr)
                    THEN IF ret.err = Nil
                         THEN <<Call("GetTimeline", ret.user, Nil),
                                Call("SetTimeline", ret.user, Nil)>>
                         ELSE <<Call("GetTimeline", ret.user, Nil)>>
                    ELSE <<>>

\* a timeline with a tweet in it has been served by both deployments
C36_Witness ==
    /\ Replayed
    /\ InHand.req.op = "GetTimeline"
    /\ InHand.got.err = Nil
    /\ Len(InHand.got.timeline) >= 1

----------------------------------------------------------------------------
(* The follow graph and the timelines under the requests of the program, in
   each deployment: users are created, tweet, follow and unfollow any user
   ID, known or not, and read their timelines; the stores and Redis answer. *)

FollowsInit ==
    \/ InitWith("local", "nil", {"stores"})
    \/ InitWith("lambda", "redis", {"stores"})
    \/ InitWith("lambda", "nil", {"stores"})

FollowsNext ==
    \/ mode = "local" /\ MemRequests(1..MaxInFlight, SmallMaxTweets, SmallMaxTime)
    \/ mode = "lambda"
        /\ DdbStoreSteps(1..MaxInFlight, {TRUE}, SmallMaxTweets, SmallMaxTime)
    \/ timelineCache = "redis" /\ DdbCacheSteps(1..MaxInFlight, {TRUE})

SpecFollows == FollowsInit /\ [][FollowsNext]_vars

\* the request that has just returned left the user store and the cached
\* timelines as they were when it began and called no cache
ChangedNothing ==
    /\ UserStore = UserStoreIn(ret.from)
    /\ userTimeline = ret.from.userTimeline
    /\ redis = ret.from.redis
    /\ ret.calls = << >>

\* C37: FollowUser(U, V) for a U or a V the user store does not hold returns
\* ErrUserNotFound, leaves the user store and the cached timelines as they
\* were and calls no cache.  UnfollowUser(U, V) looks up U only: for a U that
\* is not stored it does the same, for a stored U it returns nil whatever V
\* is, and the user store is left as it was when V is unknown or not followed
\* by U.  The requests of the program never delete a user, so that every
\* followed ID is a stored user's: an unknown V is not followed.
C37_UnknownUsersInFollowAndUnfollow ==
    /\ (/\ ret.op = "FollowUser" /\ ret.alone
        /\ (\/ ret.user \notin StoredUserIDsIn(ret.from)
            \/ ret.other \notin StoredUserIDsIn(ret.from))) =>
            /\ ret.err = ErrUserNotFound
            /\ ChangedNothing
    /\ (/\ ret.op = "UnfollowUser" /\ ret.alone
        /\ ret.user \notin StoredUserIDsIn(ret.from)) =>
            /\ ret.err = ErrUserNotFound
            /\ ChangedNothing
    /\ (/\ ret.op = "UnfollowUser" /\ ret.alone
        /\ ret.user \in StoredUserIDsIn(ret.from)) =>
            /\ ret.err = Nil
            /\ (\/ ret.other \notin StoredUserIDsIn(ret.from)
                \/ ret.other \notin StoredFollowingIn(ret.from, ret.user)) =>
                    UserStore = UserStoreIn(ret.from)
    /\ \A u \in StoredUserIDs : StoredFollowing(u) \subseteq StoredUserIDs

\* a stored user whose timeline is cached has asked to follow a user who is
\* not stored: the request was refused and the entry is still there
C37_Witness ==
    /\ ret.op = "FollowUser" /\ ret.err = ErrUserNotFound /\ ret.alone
    /\ ret.user \in StoredUserIDsIn(ret.from)
    /\ ret.other \notin StoredUserIDsIn(ret.from)
    /\ Cached(ret.user)

====
